---- MODULE Spec2Model ----
(***************************************************************************)
(* Model of the variant pipeline of d4_generation.py:                      *)
(*   augment               the augmentation engine                         *)
(*   data_generator_vals   the wild-type encoder                           *)
(*   DataGenerator         the batch generator                             *)
(* Python strings are sequences of one-character strings, numpy arrays and *)
(* Python lists are sequences (position k of the model is index k-1 of the *)
(* code; index VALUES such as pos_inds and idx keep the code's 0-based     *)
(* numbering).  Labels are integers: the only arithmetic on them is one    *)
(* addition, which is exact and commutative for floats as well.            *)
(***************************************************************************)
EXTENDS Integers, Sequences, FiniteSets, TLC

VARIABLES
    \* ---- augment(data, labels, mutations, runs, un) ----
    data, labels, mutations, runs, un,   \* the arguments
    pos_inds,                            \* the index array shuffled in place
    to_del,                              \* indices rejected in the latest run
    nd, nl, nm,                          \* the accumulated / returned lists
    i,                                   \* loop counter of "for i in range(runs)"
    aug_pc,                              \* "idle" | "loop" | "done"
    \* ---- data_generator_vals(wt_seq, alignment_path, alignment_base) ----
    wt_seq, alignment_path,              \* the arguments
    dgv,                                 \* what the call returned, <<>> before
    enc_pc,                              \* "idle" | "call" | "done"
    \* ---- DataGenerator ----
    self,                                \* the object's attributes, by name
    ret,                                 \* the latest call on it and its outcome
    served,                              \* the batches handed out this epoch
    gen_pc,                              \* "idle" | "new" | "ready"
    \* ---- the workers of model.fit, each in a call of self[idx] ----
    workers,                             \* per worker: its position and locals
    \* ---- run_all(...) ----
    run,                                 \* its position, arguments and locals
    \* ---- CustomPrint, the callback of model.fit ----
    cb                                   \* its attributes and what it has saved

aug_vars == <<data, labels, mutations, runs, un, pos_inds, to_del, nd, nl, nm, i, aug_pc>>
enc_vars == <<wt_seq, alignment_path, dgv, enc_pc>>
gen_vars == <<self, ret, served, gen_pc>>

wrk_vars == <<workers>>
run_vars == <<run>>
cb_vars == <<cb>>

vars == <<aug_vars, enc_vars, gen_vars, wrk_vars, run_vars, cb_vars>>

-----------------------------------------------------------------------------
(* Bounds of the model *)
MaxRows == 3        \* rows of the table given to augment
MaxRuns == 2        \* the argument runs of augment
MaxSeqLen == 3      \* length of the wild-type sequence given to the encoder
MaxSamples == 3     \* samples held by a DataGenerator
MaxBatch == 3       \* its batch_size
MaxWorkers == 2     \* workers of model.fit that call the generator at a time
MaxTrain == 2       \* rows of the training split that run_all reads
MaxCap == 3         \* the cap of the training set, scaled down
MaxEpoch == 4       \* the last epoch number the callback is called with
MaxLoss == 2        \* the losses of an epoch are among 0..MaxLoss
MaxInterval == 2    \* model_save_interval of the callback

-----------------------------------------------------------------------------
(* Python str and numpy string arrays *)

\* Unicode code points of the characters that occur; numpy and Python order
\* strings by code point.
Ord == ("," :> 44) @@ ("0" :> 48) @@ ("1" :> 49) @@ ("2" :> 50) @@ ("3" :> 51)
       @@ ("5" :> 53) @@ ("9" :> 57) @@ ("A" :> 65) @@ ("D" :> 68) @@ ("R" :> 82)
       @@ ("S" :> 83) @@ ("T" :> 84) @@ ("V" :> 86) @@ ("X" :> 88)

\* a < b for two strings: lexicographic by code point, a proper prefix first
RECURSIVE StrLess(_, _)
StrLess(a, b) ==
    IF a = <<>> THEN b # <<>>
    ELSE IF b = <<>> THEN FALSE
    ELSE IF Ord[a[1]] # Ord[b[1]] THEN Ord[a[1]] < Ord[b[1]]
    ELSE StrLess(Tail(a), Tail(b))

\* s.split(","): always at least one piece, "".split(",") is [""]
RECURSIVE str_split(_)
str_split(s) ==
    IF \A k \in 1..Len(s) : s[k] # ","
    THEN <<s>>
    ELSE LET k == CHOOSE k \in 1..Len(s) : s[k] = "," /\ \A m \in 1..(k-1) : s[m] # ","
         IN  <<SubSeq(s, 1, k-1)>> \o str_split(SubSeq(s, k+1, Len(s)))

\* ",".join(t)
RECURSIVE str_join(_)
str_join(t) ==
    IF t = <<>> THEN <<>>
    ELSE IF Len(t) = 1 THEN t[1]
    ELSE t[1] \o <<",">> \o str_join(Tail(t))

RECURSIVE SortedInsert(_, _)
SortedInsert(x, s) ==
    IF s = <<>> THEN <<x>>
    ELSE IF StrLess(s[1], x) THEN <<s[1]>> \o SortedInsert(x, Tail(s))
    ELSE <<x>> \o s

\* np.sort of an array of strings
RECURSIVE np_sort(_)
np_sort(s) == IF s = <<>> THEN <<>> ELSE SortedInsert(s[1], np_sort(Tail(s)))

Range(s) == { s[k] : k \in 1..Len(s) }

RECURSIVE SetToSortedSeq(_)
SetToSortedSeq(S) ==
    IF S = {} THEN <<>>
    ELSE LET x == CHOOSE x \in S : \A y \in S : y = x \/ StrLess(x, y)
         IN  <<x>> \o SetToSortedSeq(S \ {x})

\* np.unique(a): the sorted distinct values
np_unique(a) == SetToSortedSeq(Range(a))

\* (mutant) return_index reporting the last occurrence instead of the first
np_unique_index_last(a) ==
    LET u == np_unique(a)
    IN  [k \in 1..Len(u) |->
            (CHOOSE p \in 1..Len(a) :
                a[p] = u[k] /\ \A q \in (p+1)..Len(a) : a[q] # u[k]) - 1]

\* np.unique(a, return_index=True)[1]: for each distinct value, in sorted
\* order, the (0-based) index of its first occurrence in a
np_unique_index(a) ==
    LET u == np_unique(a)
    IN  [k \in 1..Len(u) |->
            (CHOOSE p \in 1..Len(a) : a[p] = u[k] /\ \A q \in 1..(p-1) : a[q] # u[k]) - 1]

\* (mutant) a rejected entry takes the rest of the array with it
np_delete_rest(a, idxs) ==
    IF \E k \in 1..Len(a) : (k - 1) \in idxs
    THEN SubSeq(a, 1, (CHOOSE k \in 1..Len(a) :
                          (k - 1) \in idxs /\ \A m \in 1..(k - 1) : (m - 1) \notin idxs) - 1)
    ELSE a

\* np.delete(a, idxs): a without the entries at the (0-based) indices idxs
RECURSIVE np_delete_from(_, _, _)
np_delete_from(a, idxs, k) ==
    IF k > Len(a) THEN <<>>
    ELSE (IF (k-1) \in idxs THEN <<>> ELSE <<a[k]>>) \o np_delete_from(a, idxs, k+1)

np_delete(a, idxs) == np_delete_from(a, idxs, 1)

\* a[ix] for an index array ix of 0-based indices (numpy fancy indexing)
np_take(a, ix) == [k \in 1..Len(ix) |-> a[ix[k] + 1]]

\* every arrangement np.random.shuffle can leave in an array holding 0..n-1
Shuffles(n) ==
    { p \in [1..n -> 0..(n-1)] : \A a, b \in 1..n : a # b => p[a] # p[b] }

-----------------------------------------------------------------------------
(* augment *)

\* variants in the notation of the docstring, ['S1A', 'D35T,V20R', ...]
S1A  == <<"S", "1", "A">>
S1R  == <<"S", "1", "R">>
D35T == <<"D", "3", "5", "T">>
V20R == <<"V", "2", "0", "R">>
D35T_V20R == D35T \o <<",">> \o V20R

\* The rows the input table is drawn from: variant d, score l, number of
\* mutations m.  The scores are distinct powers of two, so that a sum of two
\* of them names the two rows it was computed from.  The last row carries a
\* number of mutations below that of its variant string, and so does the row
\* after it, with half as many mutations as its string has tokens.
AugPool ==
    << [d |-> S1A,       l |-> 1,  m |-> 1],
       [d |-> D35T_V20R, l |-> 2,  m |-> 2],
       [d |-> S1R,       l |-> 4,  m |-> 1],
       [d |-> D35T,      l |-> 8,  m |-> 1],
       [d |-> S1A,       l |-> 16, m |-> 1],
       [d |-> V20R,      l |-> 32, m |-> 0],
       [d |-> D35T_V20R, l |-> 64, m |-> 1] >>

RECURSIVE SelectRows(_, _, _)
SelectRows(pool, S, k) ==
    IF k > Len(pool) THEN <<>>
    ELSE (IF k \in S THEN <<pool[k]>> ELSE <<>>) \o SelectRows(pool, S, k+1)

\* the input tables: up to MaxRows rows of the pool, in the pool's order
AugInputs ==
    { SelectRows(AugPool, S, 1) :
        S \in { T \in SUBSET (1..Len(AugPool)) : Cardinality(T) <= MaxRows } }

\* (mutant) every label added to itself instead of to that of its partner
new_labels_unpaired(lab, p) == [cj \in 1..Len(lab) |-> lab[cj] + lab[cj]]

\* line 85: labels + labels[pos_inds]
new_labels(lab, p) == [cj \in 1..Len(lab) |-> lab[cj] + lab[p[cj] + 1]]

\* line 86: mutations + mutations[pos_inds]
new_mutations(mut, p) == [cj \in 1..Len(mut) |-> mut[cj] + mut[p[cj] + 1]]

\* (mutant) the two token lists concatenated and left unsorted
pos_new_data_unsorted(j, k) == str_split(j) \o str_split(k)

\* (mutant) the tokens of the second row put behind those of the first,
\* each row's tokens sorted
pos_new_data_row_by_row(j, k) == np_sort(str_split(j)) \o np_sort(str_split(k))

\* line 94: np.sort(j.split(",") + k.split(","))
pos_new_data(j, k) == np_sort(str_split(j) \o str_split(k))

\* lines 93-99, the list new_data: one candidate string per row
new_data(dat, p) ==
    [cj \in 1..Len(dat) |-> str_join(pos_new_data(dat[cj], dat[p[cj] + 1]))]

\* (mutant) the check counting all tokens instead of the distinct ones
rejected_no_unique(dat, mut, p, cj) ==
    Len(pos_new_data(dat[cj + 1], dat[p[cj + 1] + 1]))
        # new_mutations(mut, p)[cj + 1]

\* (mutant) the check made for the pairings of two different rows only
rejected_unless_same_row(dat, mut, p, cj) ==
    /\ p[cj + 1] # cj
    /\ Len(np_unique(pos_new_data(dat[cj + 1], dat[p[cj + 1] + 1])))
          # new_mutations(mut, p)[cj + 1]

\* lines 97-98: whether candidate cj (0-based) is put on to_del
rejected(dat, mut, p, cj) ==
    Len(np_unique(pos_new_data(dat[cj + 1], dat[p[cj + 1] + 1])))
        # new_mutations(mut, p)[cj + 1]

\* lines 89-98, the list to_del after the inner loop
to_del_of(dat, mut, p) ==
    { cj \in 0..(Len(dat) - 1) : rejected(dat, mut, p, cj) }

\* (mutant) the sums of lines 85-86 stored in the arrays they are taken from
args_after_run_inplace(dat, lab, mut, p) ==
    [data |-> dat, labels |-> new_labels(lab, p),
     mutations |-> new_mutations(mut, p)]

\* the caller's three arrays after an iteration, lines 83-107: the
\* iteration shuffles pos_inds, made at line 75, and stores to arrays it
\* has made itself (labels + labels[pos_inds], np.delete and np.asarray give
\* new arrays)
args_after_run(dat, lab, mut, p) ==
    [data |-> dat, labels |-> lab, mutations |-> mut]

AugIdle ==
    /\ data = <<>> /\ labels = <<>> /\ mutations = <<>> /\ runs = 0 /\ un = FALSE
    /\ pos_inds = <<>> /\ to_del = {} /\ nd = <<>> /\ nl = <<>> /\ nm = <<>>
    /\ i = 0 /\ aug_pc = "idle"

\* the call augment(data, labels, mutations, runs, un), before its loop
AugmentCalled ==
    /\ \E rows \in AugInputs :
          /\ data      = [k \in 1..Len(rows) |-> rows[k].d]
          /\ labels    = [k \in 1..Len(rows) |-> rows[k].l]
          /\ mutations = [k \in 1..Len(rows) |-> rows[k].m]
          \* line 75: pos_inds = np.arange(len(labels))
          /\ pos_inds  = [k \in 1..Len(rows) |-> k - 1]
    /\ runs \in 0..MaxRuns
    /\ un \in BOOLEAN
    /\ to_del = {}
    /\ nd = <<>> /\ nl = <<>> /\ nm = <<>>
    /\ i = 0
    /\ aug_pc = "loop"

\* one iteration of "for i in range(runs)", lines 81-107
AugmentRun ==
    /\ aug_pc = "loop"
    /\ i < runs
    /\ \E p \in Shuffles(Len(pos_inds)) :
          LET del == to_del_of(data, mutations, p)
              args == args_after_run(data, labels, mutations, p)
          IN  /\ pos_inds' = p
              /\ data' = args.data
              /\ labels' = args.labels
              /\ mutations' = args.mutations
              /\ to_del' = del
              /\ nd' = nd \o np_delete(new_data(data, p), del)
              /\ nl' = nl \o np_delete(new_labels(labels, p), del)
              /\ nm' = nm \o np_delete(new_mutations(mutations, p), del)
    /\ i' = i + 1
    /\ UNCHANGED <<runs, un, aug_pc>>
    /\ UNCHANGED <<enc_vars, gen_vars, wrk_vars, run_vars, cb_vars>>

\* lines 110-114: the three lists after "if un:"
dedupe(lst, keys, flag) ==
    IF flag THEN np_take(lst, np_unique_index(keys)) ELSE lst

\* lines 109-116: the loop is over; remove duplicates if asked, and return
AugmentReturn ==
    /\ aug_pc = "loop"
    /\ i = runs
    /\ nd' = dedupe(nd, nd, un)
    /\ nl' = dedupe(nl, nd, un)
    /\ nm' = dedupe(nm, nd, un)
    /\ aug_pc' = "done"
    /\ UNCHANGED <<data, labels, mutations, runs, un, pos_inds, to_del, i>>
    /\ UNCHANGED <<enc_vars, gen_vars, wrk_vars, run_vars, cb_vars>>


-----------------------------------------------------------------------------
(* Vocabulary of the claims about augment *)

\* A token is "<residue><position><residue>", e.g. S1A: its position
Position(tok) == SubSeq(tok, 2, Len(tok) - 1)

Positions(v) == { Position(t) : t \in Range(str_split(v)) }

\* the two variants mutate a common sequence position
SharePosition(a, b) == Positions(a) \cap Positions(b) # {}

\* a variant that mutates each position at most once
PositionsUnique(v) ==
    LET t == str_split(v)
    IN  \A a, b \in 1..Len(t) : a # b => Position(t[a]) # Position(t[b])

\* the number of mutations of row k is the number of tokens of its variant
CountRight(k) == mutations[k] = Len(str_split(data[k]))

InputsWellFormed ==
    \A k \in 1..Len(data) : CountRight(k) /\ PositionsUnique(data[k])

\* the (0-based) row that row cj is paired with under the arrangement p
Partner(p, cj) == p[cj + 1]

\* the candidate string of the pairing (row cj, row p(cj))
Candidate(p, cj) == new_data(data, p)[cj + 1]

\* s is the sorted, comma-joined union of the tokens of a and b
IsSortedUnion(s, a, b) ==
    LET t == str_split(s)
    IN  /\ Range(t) = Range(str_split(a)) \cup Range(str_split(b))
        /\ Len(t) = Len(str_split(a)) + Len(str_split(b))
        /\ \A k \in 1..(Len(t) - 1) : ~StrLess(t[k + 1], t[k])

\* C1 (as claimed): after a run, every pairing of two variants that mutate a
\* common position is on to_del, and the returned variants mutate each
\* position at most once whenever the input variants do.
C1_OverlapRejected ==
    InputsWellFormed =>
        /\ i >= 1 =>
              \A cj \in 0..(Len(data) - 1) :
                  SharePosition(data[cj + 1], data[Partner(pos_inds, cj) + 1])
                      => cj \in to_del
        /\ aug_pc = "done" => \A k \in 1..Len(nd) : PositionsUnique(nd[k])

\* the case of C2: a pairing of two valid variants with disjoint positions
\* whose numbers of mutations are their numbers of tokens
C2_Case(p, cj) ==
    /\ CountRight(cj + 1) /\ CountRight(Partner(p, cj) + 1)
    /\ PositionsUnique(data[cj + 1]) /\ PositionsUnique(data[Partner(p, cj) + 1])
    /\ ~SharePosition(data[cj + 1], data[Partner(p, cj) + 1])

\* C2 (as claimed): every candidate of the latest run that falls under the
\* case is in the returned lists with the sum of the labels, the sum of the
\* numbers of mutations and the sorted union as its string.
C2_DisjointReturned ==
    (aug_pc = "done" /\ i >= 1) =>
        \A cj \in 0..(Len(data) - 1) :
            C2_Case(pos_inds, cj) =>
                \E k \in 1..Len(nd) :
                    /\ nd[k] = Candidate(pos_inds, cj)
                    /\ nl[k] = labels[cj + 1] + labels[Partner(pos_inds, cj) + 1]
                    /\ nm[k] = mutations[cj + 1] + mutations[Partner(pos_inds, cj) + 1]

\* how many of the candidates 0..cj of a run are kept
AcceptedRank(del, cj) == Cardinality({ c \in 0..cj : c \notin del })

\* C2 (amended): a run accepts every candidate that falls under the case and
\* appends it to the accumulated lists, in row order behind what earlier runs
\* appended, with the two sums and the sorted union; the return hands the
\* lists out unchanged when un is false, and with un true it keeps every
\* string (with the label and count of its first occurrence, see C4).
C2_DisjointAccepted ==
    [][ /\ (i' = i + 1) =>
            /\ SubSeq(nd', 1, Len(nd)) = nd
            /\ SubSeq(nl', 1, Len(nl)) = nl
            /\ SubSeq(nm', 1, Len(nm)) = nm
            /\ \A cj \in 0..(Len(data) - 1) :
                  C2_Case(pos_inds', cj) =>
                      /\ cj \notin to_del'
                      /\ LET k == Len(nd) + AcceptedRank(to_del', cj)
                             q == Partner(pos_inds', cj)
                         IN  /\ k <= Len(nd') /\ k <= Len(nl') /\ k <= Len(nm')
                             /\ nl'[k] = labels[cj + 1] + labels[q + 1]
                             /\ nm'[k] = mutations[cj + 1] + mutations[q + 1]
                             /\ nm'[k] = Len(str_split(nd'[k]))
                             /\ IsSortedUnion(nd'[k], data[cj + 1], data[q + 1])
        /\ (aug_pc' = "done" /\ aug_pc = "loop" /\ ~un) =>
            (nd' = nd /\ nl' = nl /\ nm' = nm)
        /\ (aug_pc' = "done" /\ aug_pc = "loop" /\ un) =>
            Range(nd') = Range(nd)
      ]_vars

\* a run has accepted a three-token union of two disjoint variants, and the
\* call has returned
C2_Witness ==
    /\ aug_pc = "done" /\ i >= 1
    /\ \E cj \in 0..(Len(data) - 1) :
          /\ C2_Case(pos_inds, cj)
          /\ cj \notin to_del
          /\ new_mutations(mutations, pos_inds)[cj + 1] = 3
          /\ Candidate(pos_inds, cj) \in Range(nd)

\* the (1-based) position of the first occurrence of s in the list a
FirstOccurrence(a, s) ==
    CHOOSE p \in 1..Len(a) : a[p] = s /\ \A q \in 1..(p - 1) : a[q] # s

\* C4: with un, the return leaves exactly one entry per distinct string of
\* the accumulated candidates, each with the label and the number of
\* mutations of the string's first occurrence in generation order.
C4_DedupeFirst ==
    [][ (aug_pc = "loop" /\ aug_pc' = "done" /\ un) =>
            /\ Range(nd') = Range(nd)
            /\ Len(nd') = Cardinality(Range(nd))
            /\ Len(nl') = Len(nd') /\ Len(nm') = Len(nd')
            /\ \A k \in 1..Len(nd') :
                  /\ nl'[k] = nl[FirstOccurrence(nd, nd'[k])]
                  /\ nm'[k] = nm[FirstOccurrence(nd, nd'[k])]
      ]_vars

\* augment has returned with un, and a candidate accepted by the latest run
\* was dropped as the duplicate of an earlier one with another label
C4_Witness ==
    /\ aug_pc = "done" /\ un /\ i >= 1
    /\ \E cj \in 0..(Len(data) - 1) :
          /\ cj \notin to_del
          /\ \E k \in 1..Len(nd) :
                /\ nd[k] = Candidate(pos_inds, cj)
                /\ nl[k] # new_labels(labels, pos_inds)[cj + 1]

\* C9: every returned sample has as many tokens as its number of mutations
\* says, all different, provided the same holds of the counts of the input.
C9_CountIsTokens ==
    (aug_pc = "done" /\ \A r \in 1..Len(data) : CountRight(r)) =>
        /\ Len(nm) = Len(nd)
        /\ \A k \in 1..Len(nd) :
              LET t == str_split(nd[k])
              IN  /\ nm[k] = Len(t)
                  /\ Cardinality(Range(t)) = Len(t)

\* augment has returned some sample of three tokens, from well-counted input
C9_Witness ==
    /\ aug_pc = "done"
    /\ \A r \in 1..Len(data) : CountRight(r)
    /\ \E k \in 1..Len(nd) : Len(str_split(nd[k])) = 3 /\ nm[k] = 3

\* entry k of the three lists comes from the pairing of the rows a and b
FromPairing(k, a, b) ==
    /\ nd[k] = str_join(pos_new_data(data[a], data[b]))
    /\ nl[k] = labels[a] + labels[b]
    /\ nm[k] = mutations[a] + mutations[b]

\* C22: the three sequences augment returns are parallel in every case
\* (empty input, runs = 0, all candidates rejected, dedupe on or off): they
\* have equal length, and the label and the number of mutations at index k
\* are the sums of the pairing that produced the variant at index k;
\* deleting the rejected candidates and removing duplicates keeps the
\* entries of one candidate together.  (The scores of the rows are distinct
\* powers of two: a sum names its pairing.)
C22_OutputsParallel ==
    /\ [](aug_pc \in {"loop", "done"} =>
            /\ Len(nd) = Len(nl) /\ Len(nl) = Len(nm)
            /\ \A k \in 1..Len(nd) :
                  \E a, b \in 1..Len(data) : FromPairing(k, a, b))
    /\ [][aug_pc' = "done" =>
             \A k \in 1..Len(nd') :
                 \E q \in 1..Len(nd) :
                     nd'[k] = nd[q] /\ nl'[k] = nl[q] /\ nm'[k] = nm[q]]_vars

\* C22 (witness): a call with dedupe has returned two entries or more, of
\* different labels, and its last run rejected some candidate
C22_Witness ==
    /\ aug_pc = "done" /\ un /\ to_del # {}
    /\ Len(nd) >= 2
    /\ \E k \in 1..Len(nd) : nl[k] # nl[1]

\* C27 (as claimed): in every run the pairing is a bijection: each row is
\* once the first operand and once the second, so a run makes exactly N
\* candidates; and a row of at least one mutation that is paired with itself
\* is rejected.
C27_SelfPairingRejected ==
    [][(i' = i + 1) =>
          LET N == Len(data)
          IN  /\ Len(pos_inds') = N
              /\ \A r \in 0..(N - 1) :
                    Cardinality({ cj \in 0..(N - 1) : Partner(pos_inds', cj) = r }) = 1
              /\ Len(new_data(data, pos_inds')) = N
              /\ \A cj \in 0..(N - 1) :
                    (/\ Partner(pos_inds', cj) = cj
                     /\ mutations[cj + 1] >= 1) => cj \in to_del'
    ]_vars

\* C27 (amended): in every run the pairing is a bijection: each row is once
\* the first operand and once the second, so a run makes exactly N
\* candidates, of which it keeps those it does not reject; and a row of at
\* least one mutation whose number of mutations is the number of its tokens
\* is rejected when it is paired with itself.
C27_PairingBijective ==
    [][(i' = i + 1) =>
          LET N == Len(data)
          IN  /\ Len(pos_inds') = N
              /\ \A r \in 0..(N - 1) :
                    Cardinality({ cj \in 0..(N - 1) : Partner(pos_inds', cj) = r }) = 1
              /\ Len(new_data(data, pos_inds')) = N
              /\ to_del' \subseteq 0..(N - 1)
              /\ Len(nd') = Len(nd) + N - Cardinality(to_del')
              /\ \A cj \in 0..(N - 1) :
                    (/\ Partner(pos_inds', cj) = cj
                     /\ mutations[cj + 1] >= 1
                     /\ CountRight(cj + 1)) => cj \in to_del'
    ]_vars

\* C27 (witness): a run of three rows has paired a row of one mutation with
\* itself and rejected it, and kept another candidate
C27_Witness ==
    /\ i >= 1 /\ Len(data) = 3
    /\ \E cj \in 0..2 :
          /\ Partner(pos_inds, cj) = cj
          /\ mutations[cj + 1] >= 1 /\ CountRight(cj + 1)
          /\ cj \in to_del
    /\ Cardinality(to_del) < 3

\* the rows cj and ck (0-based) are each other's partner under p
Mirrored(p, cj, ck) == cj # ck /\ Partner(p, cj) = ck /\ Partner(p, ck) = cj

\* C28: the construction of a candidate is commutative in its two rows: the
\* pairings (i, j) and (j, i) give the same string, the same number of
\* mutations (and label) and the same decision, for any two rows and in
\* particular for the mirrored pairings of one run; with dedupe on, the
\* returned strings are all different, so mirrored pairings leave one entry.
C28_PairingCommutes ==
    (aug_pc \in {"loop", "done"}) =>
        /\ \A a, b \in 1..Len(data) :
              /\ pos_new_data(data[a], data[b]) = pos_new_data(data[b], data[a])
              /\ mutations[a] + mutations[b] = mutations[b] + mutations[a]
        /\ i >= 1 =>
              \A cj, ck \in 0..(Len(data) - 1) :
                  Mirrored(pos_inds, cj, ck) =>
                      /\ Candidate(pos_inds, cj) = Candidate(pos_inds, ck)
                      /\ new_mutations(mutations, pos_inds)[cj + 1]
                            = new_mutations(mutations, pos_inds)[ck + 1]
                      /\ new_labels(labels, pos_inds)[cj + 1]
                            = new_labels(labels, pos_inds)[ck + 1]
                      /\ cj \in to_del <=> ck \in to_del
        /\ (aug_pc = "done" /\ un) =>
              \A k, q \in 1..Len(nd) : nd[k] = nd[q] => k = q

\* C28 (witness): a call with dedupe has returned, its last run kept both
\* candidates of two mirrored pairings, and their string is returned
C28_Witness ==
    /\ aug_pc = "done" /\ un /\ i >= 1
    /\ \E cj, ck \in 0..(Len(data) - 1) :
          /\ Mirrored(pos_inds, cj, ck)
          /\ cj \notin to_del /\ ck \notin to_del
          /\ Cardinality({ k \in 1..Len(nd) : nd[k] = Candidate(pos_inds, cj) }) = 1

\* C17: every call comes to its return, whatever the input and runs (none of
\* its statements raises); a run appends every candidate it has not rejected,
\* in row order, behind those of the runs before it, so that it adds N less
\* the number it rejected; with un off the return hands these lists out as
\* they are, of a length of at most runs * N.
C17_ForwardProgress ==
    /\ <>(aug_pc = "done")
    /\ [][ /\ (i' = i + 1) =>
                LET N == Len(data)
                    added == N - Cardinality(to_del')
                IN  /\ to_del' \subseteq 0..(N - 1)
                    /\ Len(nd') = Len(nd) + added
                    /\ Len(nl') = Len(nl) + added
                    /\ Len(nm') = Len(nm) + added
                    /\ SubSeq(nd', 1, Len(nd)) = nd
                    /\ \A cj \in (0..(N - 1)) \ to_del' :
                          LET k == Len(nd) + AcceptedRank(to_del', cj)
                          IN  /\ nd'[k] = Candidate(pos_inds', cj)
                              /\ nl'[k] = new_labels(labels, pos_inds')[cj + 1]
                              /\ nm'[k] = new_mutations(mutations, pos_inds')[cj + 1]
           /\ (aug_pc = "loop" /\ aug_pc' = "done") =>
                /\ i = runs
                /\ ~un => (nd' = nd /\ nl' = nl /\ nm' = nm)
       ]_vars
    /\ [](Len(nd) <= i * Len(data) /\ i <= runs)

\* a call with un off has returned after two runs that rejected some but
\* not all of their candidates
C17_Witness ==
    /\ aug_pc = "done" /\ ~un /\ runs = 2
    /\ to_del # {}
    /\ Len(nd) < runs * Len(data)
    /\ Len(nd) > Len(data) - Cardinality(to_del)

\* The loop of lines 81-107 as a whole: every value the accumulated lists
\* can have after r runs, each with the number of candidates that the runs
\* have put on to_del
RECURSIVE augment_accumulated(_, _, _, _)
augment_accumulated(dat, lab, mut, r) ==
    IF r = 0
    THEN { [nd |-> <<>>, nl |-> <<>>, nm |-> <<>>, discarded |-> 0] }
    ELSE { [ nd |-> a.nd \o np_delete(new_data(dat, p), to_del_of(dat, mut, p)),
             nl |-> a.nl \o np_delete(new_labels(lab, p), to_del_of(dat, mut, p)),
             nm |-> a.nm \o np_delete(new_mutations(mut, p), to_del_of(dat, mut, p)),
             discarded |-> a.discarded + Cardinality(to_del_of(dat, mut, p)) ]
           : a \in augment_accumulated(dat, lab, mut, r - 1),
             p \in Shuffles(Len(lab)) }

\* augment(dat, lab, mut, r, flag): every triple the call can return, lines
\* 109-116, each with the number of candidates that were discarded on the way
augment_outcomes(dat, lab, mut, r, flag) ==
    { [ nd |-> dedupe(a.nd, a.nd, flag),
        nl |-> dedupe(a.nl, a.nd, flag),
        nm |-> dedupe(a.nm, a.nd, flag),
        discarded |-> a.discarded ]
      : a \in augment_accumulated(dat, lab, mut, r) }

\* C18 (as claimed): the caller of augment can tell how many candidates
\* were discarded: two calls on the same arguments that hand back the same
\* three lists have discarded the same number of candidates.
C18_DiscardsObservable ==
    (aug_pc = "done" /\ InputsWellFormed) =>
        \A a, b \in augment_outcomes(data, labels, mutations, runs, un) :
            (a.nd = b.nd /\ a.nl = b.nl /\ a.nm = b.nm)
                => a.discarded = b.discarded

\* C16: no step of a call changes the caller's arrays: data, labels and
\* mutations hold the same values in the same order after the call as before
\* it, whatever runs and un are and whether candidates were rejected.
C16_ArgumentsUntouched ==
    [][ /\ data' = data
        /\ labels' = labels
        /\ mutations' = mutations
      ]_vars

\* a call with un on has returned after two runs, the latest of which
\* rejected a candidate and kept another
C16_Witness ==
    /\ aug_pc = "done" /\ un /\ runs = 2
    /\ to_del # {}
    /\ Cardinality(to_del) < Len(data)
    /\ nd # <<>>

-----------------------------------------------------------------------------
(* d4_utils: the property tables *)

\* Python's None
None == <<"None">>

\* The residue letters the tables are keyed by: the twenty amino acids (the
\* conservation table has one column for each).
AminoAcids ==
    { "A", "C", "D", "E", "F", "G", "H", "I", "K", "L",
      "M", "N", "P", "Q", "R", "S", "T", "V", "W", "Y" }

\* The tables.  Their values are fixed data outside this model: the entry of
\* table t for residue a is the pair <<t, a>>.
h_bonding         == [a \in AminoAcids |-> <<"h_bonding", a>>]
hydrophobicity    == [a \in AminoAcids |-> <<"hydrophobicity", a>>]
charge            == [a \in AminoAcids |-> <<"charge", a>>]
sasa              == [a \in AminoAcids |-> <<"sasa", a>>]
side_chain_length == [a \in AminoAcids |-> <<"side_chain_length", a>>]
aa_dict_pos       == [a \in AminoAcids |-> <<"aa_dict_pos", a>>]

\* d.get(key): the entry, or None when the key is missing (dict.get never
\* raises KeyError)
dict_get(d, key) == IF key \in DOMAIN d THEN d[key] ELSE None

\* np.asarray(list(map(d.get, seq)))
map_get(d, seq) == [k \in 1..Len(seq) |-> dict_get(d, seq[k])]

-----------------------------------------------------------------------------
(* data_generator_vals *)

\* Floats that arise in the index matrix are quotients k / (n*n - 1) of two
\* integers, kept as the pair num/den; 0/0 is nan.  The sums and differences
\* taken below are of values with one denominator, or with zero, and are exact
\* in floating point.
FZero == [num |-> 0, den |-> 1]
FNaN  == [num |-> 0, den |-> 0]
FDiv(k, d) ==
    IF d = 0 THEN FNaN             \* only 0 / 0 occurs (n = 1)
    ELSE IF k = 0 THEN FZero
    ELSE [num |-> k, den |-> d]
FAdd(x, y) ==
    IF x = FNaN \/ y = FNaN THEN FNaN
    ELSE IF x = FZero THEN y
    ELSE IF y = FZero THEN x
    ELSE FDiv(x.num + y.num, x.den)
FSub(x, y) ==
    IF x = FNaN \/ y = FNaN THEN FNaN
    ELSE IF y = FZero THEN x
    ELSE IF x = FZero THEN FDiv(0 - y.num, y.den)
    ELSE FDiv(x.num - y.num, x.den)

\* (mutant) the matrix of line 195, before np.fill_diagonal
mat_index_of_no_fill(wt_len) ==
    LET mat_size == wt_len * wt_len
        grid == [r \in 1..wt_len |-> [c \in 1..wt_len |->
                    FDiv((r - 1) * wt_len + (c - 1), mat_size - 1)]]
        pre == [r \in 1..wt_len |-> [c \in 1..wt_len |->
                    IF c >= r THEN grid[r][c] ELSE FZero]]
    IN  [r \in 1..wt_len |-> [c \in 1..wt_len |->
            FSub(FAdd(pre[r][c], pre[c][r]),
                 IF r = c THEN pre[r][r] ELSE FZero)]]

\* (mutant) np.tril in the place of np.triu: the lower triangle mirrored
mat_index_of_tril(wt_len) ==
    LET mat_size == wt_len * wt_len
        grid == [r \in 1..wt_len |-> [c \in 1..wt_len |->
                    FDiv((r - 1) * wt_len + (c - 1), mat_size - 1)]]
        pre == [r \in 1..wt_len |-> [c \in 1..wt_len |->
                    IF c <= r THEN grid[r][c] ELSE FZero]]
        sym == [r \in 1..wt_len |-> [c \in 1..wt_len |->
                    FSub(FAdd(pre[r][c], pre[c][r]),
                         IF r = c THEN pre[r][r] ELSE FZero)]]
    IN  [r \in 1..wt_len |-> [c \in 1..wt_len |->
            IF r = c THEN FZero ELSE sym[r][c]]]

\* lines 191-196; rows and columns are numbered from 1 here
mat_index_of(wt_len) ==
    LET mat_size == wt_len * wt_len
        \* np.arange(mat_size).reshape(wt_len, wt_len) / (mat_size - 1)
        grid == [r \in 1..wt_len |-> [c \in 1..wt_len |->
                    FDiv((r - 1) * wt_len + (c - 1), mat_size - 1)]]
        \* np.triu
        pre == [r \in 1..wt_len |-> [c \in 1..wt_len |->
                    IF c >= r THEN grid[r][c] ELSE FZero]]
        \* pre + pre.T - np.diag(np.diag(pre))
        sym == [r \in 1..wt_len |-> [c \in 1..wt_len |->
                    FSub(FAdd(pre[r][c], pre[c][r]),
                         IF r = c THEN pre[r][r] ELSE FZero)]]
    IN  \* np.fill_diagonal(mat_index, 0)
        [r \in 1..wt_len |-> [c \in 1..wt_len |->
            IF r = c THEN FZero ELSE sym[r][c]]]

\* what data_generator_vals(wt, ap, ...) returns; no statement of it raises
data_generator_vals(wt, ap) ==
    [ raised       |-> "none",
      hm_pos_vals  |-> <<2, 3, 6, 9>>,
      hp_norm      |-> <<"abs(max - min)", "hydrophobicity">>,
      ia_norm      |-> <<"2 * max", "sasa">>,
      hm_converted |-> map_get(h_bonding, wt),
      hp_converted |-> map_get(hydrophobicity, wt),
      cm_converted |-> map_get(charge, wt),
      ia_converted |-> map_get(sasa, wt),
      mat_index    |-> mat_index_of(Len(wt)),
      cl_converted |-> map_get(side_chain_length, wt),
      cl_norm      |-> <<"2 * max", "side_chain_length">>,
      co_converted |-> IF ap # None THEN map_get(aa_dict_pos, wt) ELSE None,
      co_table     |-> IF ap # None THEN <<"alignment_table", "co_table">> ELSE None,
      co_rows      |-> IF ap # None THEN <<"alignment_table", "co_rows">> ELSE None ]

\* residue letters of the wild-type sequences tried; X is in no table
WtLetters == { "A", "V", "L", "X" }

WtSeqs == UNION { [1..n -> WtLetters] : n \in 1..MaxSeqLen }

AlignmentPaths == { None, <<"alignment.clustal">> }

EncIdle ==
    wt_seq = <<>> /\ alignment_path = None /\ dgv = <<>> /\ enc_pc = "idle"

\* the call data_generator_vals(wt_seq, alignment_path, alignment_base)
EncoderCalled ==
    /\ wt_seq \in WtSeqs
    /\ alignment_path \in AlignmentPaths
    /\ dgv = <<>>
    /\ enc_pc = "call"

\* the body of the call, lines 173-212
DataGeneratorVals ==
    /\ enc_pc = "call"
    /\ dgv' = data_generator_vals(wt_seq, alignment_path)
    /\ enc_pc' = "done"
    /\ UNCHANGED <<wt_seq, alignment_path>>
    /\ UNCHANGED <<aug_vars, gen_vars, wrk_vars, run_vars, cb_vars>>

\* the property vectors among the returned values
PropertyVectors(r) ==
    { r.hm_converted, r.hp_converted, r.cm_converted, r.ia_converted,
      r.cl_converted }

\* C7 (as claimed): the call fails with a KeyError when the sequence holds a
\* letter that is in no table, and no returned property vector holds a None
\* (or other default) in place of a residue's value.
C7_UnknownResidueRaises ==
    enc_pc = "done" =>
        /\ (\E k \in 1..Len(wt_seq) : wt_seq[k] \notin AminoAcids)
              => dgv.raised = "KeyError"
        /\ dgv.raised = "none" =>
              \A v \in PropertyVectors(dgv) : \A k \in 1..Len(v) : v[k] # None

\* x == y for two floats: nan is equal to nothing, itself included
FEq(x, y) == x # FNaN /\ y # FNaN /\ x = y

\* C14: the index matrix a call returns is square of the size of the
\* sequence, M[i][j] == M[j][i] for all i, j and M[i][i] == 0 for all i, for
\* every length from 1 on (at length 1 the quotient of line 193 is 0 / 0).
C14_IndexMatrixSymmetric ==
    enc_pc = "done" =>
        LET M == dgv.mat_index
            n == Len(wt_seq)
        IN  /\ Len(M) = n
            /\ \A r \in 1..n : Len(M[r]) = n
            /\ \A r, c \in 1..n : FEq(M[r][c], M[c][r])
            /\ \A r \in 1..n : FEq(M[r][r], FZero)

\* x < y for two quotients of the same positive divisor
FLess(x, y) == x # FNaN /\ y # FNaN /\ x.num * y.den < y.num * x.den

\* C30: for n >= 2 the entry of the index matrix at the positions i # j
\* (from 0) is (min(i,j) * n + max(i,j)) / (n * n - 1), it lies strictly
\* between 0 and 1, and two different unordered pairs of positions never
\* have the same value.
C30_IndexMatrixKeys ==
    (enc_pc = "done" /\ Len(wt_seq) >= 2) =>
        LET M == dgv.mat_index
            n == Len(wt_seq)
            lo(a, b) == IF a < b THEN a ELSE b
            hi(a, b) == IF a < b THEN b ELSE a
        IN  /\ \A a, b \in 0..(n - 1) :
                  a # b =>
                    /\ FEq(M[a + 1][b + 1], FDiv(lo(a, b) * n + hi(a, b), n * n - 1))
                    /\ FLess(FZero, M[a + 1][b + 1])
                    /\ FLess(M[a + 1][b + 1], [num |-> 1, den |-> 1])
            /\ \A a, b, c, d \in 0..(n - 1) :
                  (a # b /\ c # d /\ {a, b} # {c, d}) =>
                      ~FEq(M[a + 1][b + 1], M[c + 1][d + 1])

\* C30 (witness): the matrix of a sequence of three residues, with the
\* values 1/8, 2/8 and 5/8 of its three pairs of positions
C30_Witness ==
    /\ enc_pc = "done" /\ Len(wt_seq) = 3
    /\ dgv.mat_index[1][2] = [num |-> 1, den |-> 8]
    /\ dgv.mat_index[3][1] = [num |-> 2, den |-> 8]
    /\ dgv.mat_index[2][3] = [num |-> 5, den |-> 8]

\* the call has returned for a sequence of one residue, where line 193
\* divides 0 by 0
C14_Witness ==
    /\ enc_pc = "done"
    /\ Len(wt_seq) = 1
    /\ FDiv(0, Len(wt_seq) * Len(wt_seq) - 1) = FNaN
    /\ dgv.mat_index = << <<FZero>> >>

-----------------------------------------------------------------------------
(* d4_interactions.model_interactions, the variant tensor builder *)

DigitVal == ("0" :> 0) @@ ("1" :> 1) @@ ("2" :> 2) @@ ("3" :> 3) @@ ("4" :> 4)
            @@ ("5" :> 5) @@ ("6" :> 6) @@ ("7" :> 7) @@ ("8" :> 8) @@ ("9" :> 9)

\* int(s) for a string of digits
RECURSIVE str_to_int(_)
str_to_int(s) ==
    IF s = <<>> THEN 0
    ELSE 10 * str_to_int(SubSeq(s, 1, Len(s) - 1)) + DigitVal[s[Len(s)]]

\* the number of channels the builder produces: six, and a seventh when
\* there is conservation data
channel_count(co_table) == IF co_table = None THEN 6 ELSE 7

\* The builder's contract: one tensor of shape (n, n, C) for the variant, n
\* the length of the wild-type vectors; it fails when a substituted residue
\* is in no table (KeyError) or a position, less first_ind, is outside
\* 0..n-1 (IndexError).  The tensor's numbers are not modelled: a tensor is
\* named by the variant it encodes.
model_interactions(feature_to_encode, slf) ==
    LET toks == str_split(feature_to_encode)
        n == Len(slf.hm_converted)
        bad_residue == \E k \in 1..Len(toks) : toks[k][Len(toks[k])] \notin AminoAcids
        bad_position ==
            \E k \in 1..Len(toks) :
                str_to_int(Position(toks[k])) - slf.first_ind \notin 0..(n - 1)
    IN  [ raised |-> IF bad_residue THEN "KeyError"
                     ELSE IF bad_position THEN "IndexError" ELSE "none",
          tensor |-> [variant |-> feature_to_encode,
                      shape |-> <<n, n, channel_count(slf.co_table)>>] ]

-----------------------------------------------------------------------------
(* DataGenerator *)

\* a[lo:hi] for 0 <= lo <= hi: Python slices stop at the end of a
py_slice(a, lo, hi) ==
    SubSeq(a, (IF lo < Len(a) THEN lo ELSE Len(a)) + 1,
              IF hi < Len(a) THEN hi ELSE Len(a))

\* (mutant) len // batch_size
np_floor_div(a, b) == a \div b

\* int(np.ceil(a / b)) for a >= 0, b >= 1 (the float quotient of two sample
\* counts is exact enough for ceil to be the integer ceiling)
np_ceil_div(a, b) == IF a % b = 0 THEN a \div b ELSE (a \div b) + 1

\* numpy stores a value of shape src in a slot of shape dst if every
\* dimension of src is that of dst, or 1
Broadcastable(src, dst) ==
    /\ Len(src) = Len(dst)
    /\ \A k \in 1..Len(src) : src[k] = dst[k] \/ src[k] = 1

\* a slot of np.empty that nothing was stored in
Uninitialised == [variant |-> <<"?">>, shape |-> <<>>]

\* __init__, lines 337-360, called with the params of run_all: every argument
\* is stored, none is examined
DataGenerator_init(features, labs, params) ==
    [ features |-> features, labels |-> labs,
      interaction_matrix |-> params.interaction_matrix,
      dim |-> params.dim, n_channels |-> params.n_channels,
      batch_size |-> params.batch_size, first_ind |-> params.first_ind,
      hm_converted |-> params.hm_converted,
      hm_pos_vals |-> params.hm_pos_vals,
      factor |-> params.factor,
      hp_converted |-> params.hp_converted, hp_norm |-> params.hp_norm,
      cm_converted |-> params.cm_converted,
      ia_converted |-> params.ia_converted, ia_norm |-> params.ia_norm,
      mat_index |-> params.mat_index,
      cl_converted |-> params.cl_converted, cl_norm |-> params.cl_norm,
      dist_mat |-> params.dist_mat, dist_th |-> params.dist_th,
      co_converted |-> params.co_converted, co_table |-> params.co_table,
      co_rows |-> params.co_rows,
      shuffle |-> params.shuffle, train |-> params.train ]

\* __len__, line 364
DataGenerator_len(slf) == np_ceil_div(Len(slf.features), slf.batch_size)

\* (mutant) a failing sample is skipped and its slot left as np.empty made it
DataGenerator_batch_variants_skip(slf, features_to_encode, corresponding_labels) ==
    LET slot == <<slf.dim[1], slf.dim[2], slf.n_channels>>
        enc(ci) == model_interactions(features_to_encode[ci], slf)
    IN  [ raised |-> "none",
          f |-> [ci \in 1..Len(corresponding_labels) |->
                    IF enc(ci).raised = "none" /\ Broadcastable(enc(ci).tensor.shape, slot)
                    THEN [enc(ci).tensor EXCEPT !.shape = slot]
                    ELSE Uninitialised],
          l |-> corresponding_labels ]

\* __batch_variants, lines 391-427.  The loop takes the samples in order; the
\* first statement that raises ends the call, and nothing is returned.
DataGenerator_batch_variants(slf, features_to_encode, corresponding_labels) ==
    LET first_dim == Len(corresponding_labels)
        \* a slot batch_features[ci] of np.empty((first_dim, *dim, n_channels))
        slot == <<slf.dim[1], slf.dim[2], slf.n_channels>>
        enc(ci) == model_interactions(features_to_encode[ci], slf)
        \* what iteration ci raises: the builder's error (line 397), or the
        \* ValueError of storing a tensor that does not fit (line 425)
        raises(ci) ==
            IF enc(ci).raised # "none" THEN enc(ci).raised
            ELSE IF ~Broadcastable(enc(ci).tensor.shape, slot) THEN "ValueError"
            ELSE "none"
        failing == { ci \in 1..Len(features_to_encode) : raises(ci) # "none" }
    IN  IF failing # {}
        THEN [ raised |-> raises(CHOOSE ci \in failing : \A cj \in failing : ci <= cj),
               f |-> <<>>, l |-> <<>> ]
        ELSE [ raised |-> "none",
               f |-> [ci \in 1..first_dim |-> [enc(ci).tensor EXCEPT !.shape = slot]],
               l |-> corresponding_labels ]

\* (mutant) the pair of tensor and labels whatever train says
DataGenerator_getitem_always_pair(slf, idx) ==
    LET features_batch ==
            py_slice(slf.features, idx * slf.batch_size, (idx + 1) * slf.batch_size)
        label_batch ==
            py_slice(slf.labels, idx * slf.batch_size, (idx + 1) * slf.batch_size)
        fl == DataGenerator_batch_variants(slf, features_batch, label_batch)
    IN  IF fl.raised # "none"
        THEN [raised |-> fl.raised, value |-> <<>>]
        ELSE [raised |-> "none", value |-> <<fl.f, fl.l>>]

\* __getitem__, lines 368-377: the outcome of self[idx].  The value is the
\* tuple the call returns: <<f, l>> with train, and f alone, written <<f>>,
\* without
DataGenerator_getitem(slf, idx) ==
    LET features_batch ==
            py_slice(slf.features, idx * slf.batch_size, (idx + 1) * slf.batch_size)
        label_batch ==
            py_slice(slf.labels, idx * slf.batch_size, (idx + 1) * slf.batch_size)
        fl == DataGenerator_batch_variants(slf, features_batch, label_batch)
    IN  IF fl.raised # "none"
        THEN [raised |-> fl.raised, value |-> <<>>]
        ELSE [raised |-> "none",
              value |-> IF slf.train THEN <<fl.f, fl.l>> ELSE <<fl.f>>]

\* (mutant) a call that uses its window up: the samples it served move to
\* the end of the dataset
DataGenerator_getitem_self_consuming(slf, idx) ==
    LET lo == idx * slf.batch_size
        hi == (idx + 1) * slf.batch_size
        N  == Len(slf.features)
        rotate(a) == py_slice(a, 0, lo) \o py_slice(a, hi, N) \o py_slice(a, lo, hi)
    IN  [slf EXCEPT !.features = rotate(@), !.labels = rotate(@)]

\* the attributes of the object after self[idx], lines 366-427: __getitem__
\* and __batch_variants assign to their locals only (features_batch,
\* label_batch, batch_features, batch_labels, final_matrix), and the builder
\* is handed the arrays to read
DataGenerator_getitem_self(slf, idx) == slf

\* np.arange(n)
np_arange(n) == [k \in 1..n |-> k - 1]

\* (mutant) indices drawn with replacement, whatever shuffle says
on_epoch_end_idx_resampled(slf) ==
    [1..Len(slf.features) -> 0..(Len(slf.features) - 1)]

\* on_epoch_end, lines 381-383: the values self.idx can have after the call
on_epoch_end_idx(slf) ==
    IF slf.shuffle THEN Shuffles(Len(slf.features))
    ELSE { np_arange(Len(slf.features)) }

\* The generator is built for the wild type "SD", numbered from 1
GenWtSeq == <<"S", "D">>

D2T == <<"D", "2", "T">>
S1X == <<"S", "1", "X">>     \* X is in no table
D9T == <<"D", "9", "T">>     \* there is no position 9

\* the samples a dataset is drawn from: variant d and score l
GenPool ==
    << [d |-> S1A, l |-> 1],
       [d |-> S1X, l |-> 2],
       [d |-> D2T, l |-> 4],
       [d |-> S1A \o <<",">> \o D2T, l |-> 8],
       [d |-> D9T, l |-> 16] >>

\* the datasets: up to MaxSamples samples of the pool, in the pool's order
GenInputs ==
    { SelectRows(GenPool, S, 1) :
        S \in { T \in SUBSET (1..Len(GenPool)) : Cardinality(T) <= MaxSamples } }

\* dim and n_channels as a caller may pass them: those of the contact mask
\* and of the configuration, or one of the two off
GenConfigs(shape, chans) ==
    { [dim |-> shape, n_channels |-> chans],
      [dim |-> <<shape[1] + 1, shape[2] + 1>>, n_channels |-> chans],
      [dim |-> shape, n_channels |-> IF chans = 6 THEN 7 ELSE 6] }

GenIdle == self = <<>> /\ ret = <<>> /\ served = <<>> /\ gen_pc = "idle"

\* no generator built yet
GeneratorNew == self = <<>> /\ ret = <<>> /\ served = <<>> /\ gen_pc = "new"

\* DataGenerator(features, labels, **params)
Construct ==
    /\ gen_pc = "new"
    /\ \E rows \in GenInputs, bs \in 1..MaxBatch, sh \in BOOLEAN, tr \in BOOLEAN,
          ap \in AlignmentPaths :
          LET ctx == data_generator_vals(GenWtSeq, ap)
              mask == [shape |-> <<Len(GenWtSeq), Len(GenWtSeq)>>]
          IN  \E cfg \in GenConfigs(mask.shape, channel_count(ctx.co_table)) :
                  self' = DataGenerator_init(
                              [k \in 1..Len(rows) |-> rows[k].d],
                              [k \in 1..Len(rows) |-> rows[k].l],
                              [ interaction_matrix |-> mask,
                                dim |-> cfg.dim, n_channels |-> cfg.n_channels,
                                batch_size |-> bs, first_ind |-> 1,
                                factor |-> <<"factor">>,
                                dist_mat |-> <<"dist_mat">>,
                                dist_th |-> <<"dist_th">>,
                                shuffle |-> sh, train |-> tr ] @@ ctx)
    /\ ret' = [op |-> "init", idx |-> 0, raised |-> "none", value |-> <<>>]
    /\ served' = <<>>
    /\ gen_pc' = "ready"
    /\ UNCHANGED <<aug_vars, enc_vars, wrk_vars, run_vars, cb_vars>>

\* the record of an epoch: for every window asked for since the epoch began,
\* what the latest self[idx] gave and whether it was asked for before
record_batch(log, idx, outcome) ==
    (idx :> [raised |-> outcome.raised, value |-> outcome.value,
             again |-> idx \in DOMAIN log])
        @@ log

\* self[idx] for a batch index of the epoch
GetItem ==
    /\ gen_pc = "ready"
    /\ \E idx \in 0..(DataGenerator_len(self) - 1) :
          /\ ret' = [op |-> "getitem", idx |-> idx] @@ DataGenerator_getitem(self, idx)
          /\ self' = DataGenerator_getitem_self(self, idx)
          /\ served' = record_batch(served, idx, DataGenerator_getitem(self, idx))
    /\ UNCHANGED gen_pc
    /\ UNCHANGED <<aug_vars, enc_vars, wrk_vars, run_vars, cb_vars>>

\* self.on_epoch_end()
OnEpochEnd ==
    /\ gen_pc = "ready"
    /\ \E order \in on_epoch_end_idx(self) : self' = [idx |-> order] @@ self
    /\ ret' = [op |-> "on_epoch_end", idx |-> 0, raised |-> "none", value |-> <<>>]
    /\ served' = <<>>
    /\ UNCHANGED gen_pc
    /\ UNCHANGED <<aug_vars, enc_vars, wrk_vars, run_vars, cb_vars>>

-----------------------------------------------------------------------------
(* model.fit(training_generator, workers=12): calls of self[idx] in progress *)

\* no worker pool
WorkersNone == workers = <<>>

\* what np.empty(first_dim, dtype=float) holds in a slot before the loop
\* stores a label there; every slot is stored to before the array is read
UninitialisedLabel == -1

\* a worker that is in no call
WorkerIdle ==
    [ pc |-> "idle", idx |-> 0,
      features_to_encode |-> <<>>, corresponding_labels |-> <<>>, ci |-> 0,
      batch_features |-> <<>>, batch_labels |-> <<>>,
      raised |-> "none", value |-> <<>> ]

\* lines 368-373 and 391-393: worker w enters self[idx]; the slices and the
\* two arrays of np.empty are locals of its call
worker_call(slf, idx) ==
    LET features_batch ==
            py_slice(slf.features, idx * slf.batch_size, (idx + 1) * slf.batch_size)
        label_batch ==
            py_slice(slf.labels, idx * slf.batch_size, (idx + 1) * slf.batch_size)
        first_dim == Len(label_batch)
    IN  [ pc |-> "loop", idx |-> idx,
          features_to_encode |-> features_batch,
          corresponding_labels |-> label_batch, ci |-> 0,
          batch_features |-> [k \in 1..first_dim |-> Uninitialised],
          batch_labels |-> [k \in 1..first_dim |-> UninitialisedLabel],
          raised |-> "none", value |-> <<>> ]

\* (mutant) one batch array for all calls: a store goes to slot ci of the
\* array of every call that has such a slot
store_slot_shared(ws, w, ci, tensor, label) ==
    [v \in DOMAIN ws |->
        IF v = w \/ (ws[v].pc = "loop" /\ ci + 1 <= Len(ws[v].batch_features))
        THEN [ws[v] EXCEPT !.batch_features[ci + 1] = tensor,
                           !.batch_labels[ci + 1] = label,
                           !.ci = IF v = w THEN ci + 1 ELSE @]
        ELSE ws[v]]

\* (mutant) every store goes to the first slot of the arrays
store_slot_first(ws, w, ci, tensor, label) ==
    [ws EXCEPT ![w].batch_features[1] = tensor,
               ![w].batch_labels[1] = label,
               ![w].ci = ci + 1]

\* lines 425-426: batch_features[ci] = final_matrix and batch_labels[ci] =
\* corresponding_labels[ci], on the arrays of the call of worker w
store_slot(ws, w, ci, tensor, label) ==
    [ws EXCEPT ![w].batch_features[ci + 1] = tensor,
               ![w].batch_labels[ci + 1] = label,
               ![w].ci = ci + 1]

\* the generators model.fit is handed by run_all: shuffle and the
\* configuration as lines 1125-1149 set them
SharedGenerators ==
    { DataGenerator_init(
          [k \in 1..Len(rows) |-> rows[k].d],
          [k \in 1..Len(rows) |-> rows[k].l],
          [ interaction_matrix |-> [shape |-> <<Len(GenWtSeq), Len(GenWtSeq)>>],
            dim |-> <<Len(GenWtSeq), Len(GenWtSeq)>>,
            n_channels |-> channel_count(None),
            batch_size |-> bs, first_ind |-> 1,
            factor |-> <<"factor">>, dist_mat |-> <<"dist_mat">>,
            dist_th |-> <<"dist_th">>,
            shuffle |-> TRUE, train |-> tr ] @@ data_generator_vals(GenWtSeq, None))
      : rows \in GenInputs, bs \in 1..MaxBatch, tr \in BOOLEAN }

\* an epoch of model.fit begins: the generator is built, the workers wait
WorkersReady ==
    /\ self \in SharedGenerators
    /\ ret = [op |-> "init", idx |-> 0, raised |-> "none", value |-> <<>>]
    /\ served = <<>>
    /\ gen_pc = "ready"
    /\ workers = [w \in 1..MaxWorkers |-> WorkerIdle]

\* a worker is given a batch index and enters self[idx]
WorkerCall ==
    /\ gen_pc = "ready"
    /\ \E w \in DOMAIN workers, idx \in 0..(DataGenerator_len(self) - 1) :
          /\ workers[w].pc = "idle"
          /\ workers' = [workers EXCEPT ![w] = worker_call(self, idx)]
    /\ UNCHANGED <<aug_vars, enc_vars, gen_vars, run_vars, cb_vars>>

\* one iteration of the loop of __batch_variants, lines 395-426, in the call
\* of some worker
WorkerStep ==
    /\ gen_pc = "ready"
    /\ \E w \in DOMAIN workers :
          LET me  == workers[w]
              enc == model_interactions(me.features_to_encode[me.ci + 1], self)
              slot == <<self.dim[1], self.dim[2], self.n_channels>>
          IN  /\ me.pc = "loop"
              /\ me.ci < Len(me.features_to_encode)
              /\ workers' =
                    IF enc.raised # "none"
                    THEN [workers EXCEPT ![w].pc = "raised", ![w].raised = enc.raised]
                    ELSE IF ~Broadcastable(enc.tensor.shape, slot)
                    THEN [workers EXCEPT ![w].pc = "raised", ![w].raised = "ValueError"]
                    ELSE store_slot(workers, w, me.ci,
                                    [enc.tensor EXCEPT !.shape = slot],
                                    me.corresponding_labels[me.ci + 1])
    /\ UNCHANGED <<aug_vars, enc_vars, gen_vars, run_vars, cb_vars>>

\* lines 427 and 374-377: the loop of a worker's call is over, it returns
WorkerReturn ==
    /\ gen_pc = "ready"
    /\ \E w \in DOMAIN workers :
          LET me == workers[w]
          IN  /\ me.pc = "loop"
              /\ me.ci = Len(me.features_to_encode)
              /\ workers' = [workers EXCEPT
                    ![w].pc = "returned",
                    ![w].value = IF self.train
                                 THEN <<me.batch_features, me.batch_labels>>
                                 ELSE <<me.batch_features>>]
    /\ UNCHANGED <<aug_vars, enc_vars, gen_vars, run_vars, cb_vars>>

-----------------------------------------------------------------------------
(* Claims about the DataGenerator *)

HasIdx == "idx" \in DOMAIN self

\* the latest call was self[idx] and it returned a batch
BatchReturned == gen_pc = "ready" /\ ret.op = "getitem" /\ ret.raised = "none"

\* the variants the tensors of a returned batch encode, slot by slot
BatchVariants(value) == [k \in 1..Len(value[1]) |-> value[1][k].variant]

\* the (1-based) places in the dataset of the samples of window b
WindowPlaces(b) ==
    { k \in 1..Len(self.features) :
        b * self.batch_size < k /\ k <= (b + 1) * self.batch_size }

SetMin(S) == CHOOSE x \in S : \A y \in S : x <= y

\* sample at place k of the dataset makes the builder fail
BuilderFails(k) == model_interactions(self.features[k], self).raised # "none"

\* C3 (as claimed): once on_epoch_end has set the order of the epoch of a
\* shuffling generator, self[b] returns the samples at the places
\* b*batch_size .. (b+1)*batch_size-1 of that order (stated for the datasets
\* all of whose samples encode, so that any window can be returned).
C3_BatchFollowsEpochOrder ==
    (BatchReturned /\ self.shuffle /\ HasIdx
        /\ \A k \in 1..Len(self.features) : ~BuilderFails(k)) =>
        LET lo == ret.idx * self.batch_size
            n  == Cardinality(WindowPlaces(ret.idx))
            sample(k) == self.idx[lo + k] + 1
        IN  /\ BatchVariants(ret.value) = [k \in 1..n |-> self.features[sample(k)]]
            /\ self.train => ret.value[2] = [k \in 1..n |-> self.labels[sample(k)]]

\* C5: the number of batches is the ceiling of N / batch_size; every batch
\* but the last holds batch_size samples and the last holds the rest, at
\* least one and at most batch_size; 105 samples in batches of 32 are 4
\* batches, the last of 9.
C5_BatchCount ==
    /\ (gen_pc = "ready" /\ Len(self.features) >= 1) =>
          LET N  == Len(self.features)
              bs == self.batch_size
              L  == DataGenerator_len(self)
              expected(b) == IF b < L - 1 THEN bs ELSE N - (L - 1) * bs
          IN  /\ L * bs >= N /\ (L - 1) * bs < N
              /\ expected(L - 1) \in 1..bs
              /\ \A b \in 0..(L - 1) :
                    Len(py_slice(self.features, b * bs, (b + 1) * bs)) = expected(b)
              /\ BatchReturned =>
                    /\ Len(ret.value[1]) = expected(ret.idx)
                    /\ self.train => Len(ret.value[2]) = expected(ret.idx)
    /\ np_ceil_div(105, 32) = 4
    /\ Len(py_slice([k \in 1..105 |-> k], 3 * 32, 4 * 32)) = 9

\* a generator of several batches has returned its last batch, a short one
C5_Witness ==
    /\ BatchReturned
    /\ DataGenerator_len(self) >= 2
    /\ ret.idx = DataGenerator_len(self) - 1
    /\ Len(ret.value[1]) < self.batch_size
    /\ Len(ret.value[1]) >= 1

\* C6 (as claimed): a generator exists only with dim the shape of the
\* contact mask and n_channels the channel count of its configuration, and
\* no mismatch of shapes comes up as late as in a self[idx].
C6_ConstructionValidates ==
    gen_pc = "ready" =>
        /\ self.dim = self.interaction_matrix.shape
        /\ self.n_channels = channel_count(self.co_table)
        /\ ret.op = "getitem" => ret.raised # "ValueError"

\* the tensor of sample k fits the slot of the batch array
Fits(k) ==
    Broadcastable(model_interactions(self.features[k], self).tensor.shape,
                  <<self.dim[1], self.dim[2], self.n_channels>>)

\* the builder is called on the samples of the window in order, up to the
\* first statement that raises: the places where it is called and fails
FailedCalls(b) ==
    { k \in WindowPlaces(b) :
        /\ BuilderFails(k)
        /\ \A j \in WindowPlaces(b) : j < k => (~BuilderFails(j) /\ Fits(j)) }

\* C8: when the builder fails for a sample of the window, self[idx] raises
\* the builder's error and returns nothing.
C8_BuilderErrorAborts ==
    (gen_pc = "ready" /\ ret.op = "getitem") =>
        \A k \in FailedCalls(ret.idx) :
            /\ ret.raised = model_interactions(self.features[k], self).raised
            /\ ret.value = <<>>

\* self[idx] was asked for a window whose first sample encodes and fits and
\* whose second makes the builder fail
C8_Witness ==
    /\ gen_pc = "ready" /\ ret.op = "getitem"
    /\ \E k \in FailedCalls(ret.idx) :
          /\ k = SetMin(WindowPlaces(ret.idx)) + 1
          /\ ret.raised = "KeyError"

\* C10: after on_epoch_end the order idx holds each of 0..N-1 once, and is
\* 0, 1, .., N-1 when shuffle is off.
C10_IdxIsPermutation ==
    (gen_pc = "ready" /\ HasIdx) =>
        LET N == Len(self.features)
        IN  /\ Len(self.idx) = N
            /\ \A v \in 0..(N - 1) :
                  Cardinality({ k \in 1..N : self.idx[k] = v }) = 1
            /\ ~self.shuffle => self.idx = [k \in 1..N |-> k - 1]

\* on_epoch_end of a shuffling generator has left an order that is not the
\* original one
C10_Witness ==
    /\ gen_pc = "ready" /\ HasIdx /\ ret.op = "on_epoch_end"
    /\ self.shuffle
    /\ Len(self.idx) >= 3
    /\ self.idx # [k \in 1..Len(self.idx) |-> k - 1]

\* a step gives the epoch another order: self.idx is made, or its value
\* is another one
EpochOrderChanges ==
    IF "idx" \in DOMAIN self
    THEN "idx" \notin DOMAIN self' \/ self'.idx # self.idx
    ELSE "idx" \in DOMAIN self'

\* C11: self[idx] leaves every attribute of the generator as it was
\* (features, labels, the order idx, the wild-type and structure arrays); the
\* order of the epoch changes in an on_epoch_end only; and a window asked for
\* again before the next on_epoch_end gives the batch it gave before.
C11_GetBatchFrame ==
    [][ /\ (gen_pc = "ready" /\ ret'.op = "getitem") =>
              /\ self' = self
              /\ ret'.idx \in DOMAIN served =>
                    /\ ret'.raised = served[ret'.idx].raised
                    /\ ret'.value = served[ret'.idx].value
        /\ (gen_pc = "ready" /\ EpochOrderChanges) =>
              ret'.op = "on_epoch_end"
      ]_vars

\* in an epoch whose order on_epoch_end has shuffled, two windows were handed
\* out, and the latest call was for a window handed out before
C11_Witness ==
    /\ BatchReturned /\ HasIdx /\ self.shuffle
    /\ self.idx # np_arange(Len(self.features))
    /\ Cardinality(DOMAIN served) >= 2
    /\ served[ret.idx].again

\* the windows 0 .. L-1 of w, one after the other in the order of their index
RECURSIVE ConcatWindows(_, _)
ConcatWindows(w, L) == IF L = 0 THEN <<>> ELSE ConcatWindows(w, L - 1) \o w[L - 1]

\* every window of the epoch was handed out, and none failed
EpochServed ==
    /\ gen_pc = "ready"
    /\ DOMAIN served = 0..(DataGenerator_len(self) - 1)
    /\ \A b \in DOMAIN served : served[b].raised = "none"

\* the dataset in its current order: that of self.idx once on_epoch_end has
\* set the order of the epoch, the stored one before
CurrentOrder(a) == IF HasIdx THEN np_take(a, self.idx) ELSE a

\* C26 (as claimed): between two on_epoch_end, the windows of self[0], ...,
\* self[len(self) - 1] partition the dataset: the places they take are
\* pairwise disjoint and every place is in exactly one window, and once all
\* windows of an epoch were handed out, the batches returned, one after the
\* other in the order of their index, are the whole dataset in its current
\* order, samples and labels.
C26_WindowsPartition ==
    /\ gen_pc = "ready" =>
          LET N  == Len(self.features)
              bs == self.batch_size
              L  == DataGenerator_len(self)
              places == [b \in 0..(L - 1) |-> py_slice(np_arange(N), b * bs, (b + 1) * bs)]
          IN  /\ \A b, c \in 0..(L - 1) : b # c => Range(places[b]) \cap Range(places[c]) = {}
              /\ \A k \in 0..(N - 1) :
                    Cardinality({ b \in 0..(L - 1) : k \in Range(places[b]) }) = 1
    /\ EpochServed =>
          LET L == DataGenerator_len(self)
              vw == [b \in 0..(L - 1) |-> BatchVariants(served[b].value)]
              lw == [b \in 0..(L - 1) |-> served[b].value[2]]
          IN  /\ ConcatWindows(vw, L) = CurrentOrder(self.features)
              /\ self.train => ConcatWindows(lw, L) = CurrentOrder(self.labels)

\* what the code does instead: the windows partition the places of the
\* dataset, and the batches of an epoch, one after the other, are the dataset
\* in the order it was stored in, whatever order on_epoch_end has set
C26_PartitionInStoredOrder ==
    /\ gen_pc = "ready" =>
          LET N  == Len(self.features)
              bs == self.batch_size
              L  == DataGenerator_len(self)
              places == [b \in 0..(L - 1) |-> py_slice(np_arange(N), b * bs, (b + 1) * bs)]
              fw == [b \in 0..(L - 1) |-> py_slice(self.features, b * bs, (b + 1) * bs)]
              lw == [b \in 0..(L - 1) |-> py_slice(self.labels, b * bs, (b + 1) * bs)]
          IN  /\ \A b, c \in 0..(L - 1) : b # c => Range(places[b]) \cap Range(places[c]) = {}
              /\ \A k \in 0..(N - 1) :
                    Cardinality({ b \in 0..(L - 1) : k \in Range(places[b]) }) = 1
              /\ ConcatWindows(places, L) = np_arange(N)
              /\ ConcatWindows(fw, L) = self.features
              /\ ConcatWindows(lw, L) = self.labels
    /\ EpochServed =>
          LET L == DataGenerator_len(self)
              vw == [b \in 0..(L - 1) |-> BatchVariants(served[b].value)]
              lw == [b \in 0..(L - 1) |-> served[b].value[2]]
          IN  /\ ConcatWindows(vw, L) = self.features
              /\ self.train => ConcatWindows(lw, L) = self.labels

\* the call of worker w has ended, by a return or by an error
WorkerDone(w) == workers[w].pc \in {"returned", "raised"}

\* C12: whatever the interleaving of the workers' loop iterations, a call
\* that has ended gave what self[idx] gives when it runs alone; a step of one
\* worker writes to the locals of its own call only, not to those of another
\* call and not to the generator.
C12_WorkersIndependent ==
    /\ [](\A w \in DOMAIN workers :
            WorkerDone(w) =>
                [raised |-> workers[w].raised, value |-> workers[w].value]
                    = DataGenerator_getitem(self, workers[w].idx))
    /\ [][ \A w \in DOMAIN workers :
              workers'[w] # workers[w] =>
                  /\ \A v \in DOMAIN workers \ {w} : workers'[v] = workers[v]
                  /\ self' = self
         ]_vars

\* a worker has returned a batch of two samples while another worker, in a
\* call for another window, has stored a sample and not yet returned
C12_Witness ==
    \E w, v \in DOMAIN workers :
        /\ workers[w].pc = "returned"
        /\ Len(workers[w].value[1]) >= 2
        /\ workers[v].pc = "loop"
        /\ workers[v].ci >= 1
        /\ workers[v].idx # workers[w].idx

\* the window of the call of worker w: the samples and the labels at the
\* places idx*batch_size .. (idx+1)*batch_size-1 of the dataset
WorkerWindow(w) ==
    LET lo == workers[w].idx * self.batch_size
        hi == (workers[w].idx + 1) * self.batch_size
    IN  [features |-> py_slice(self.features, lo, hi),
         labels |-> py_slice(self.labels, lo, hi)]

\* C21: get_batch(i) invokes the builder exactly once for each sample of the
\* window, in window order, and stores the result for the k-th sample in
\* slot k, so that the returned tensor has shape (len(window), n, n, C) and
\* features[k] and labels[k] belong to the same sample.  In a call in
\* progress the slots 1..ci hold the tensors and labels of the first ci
\* samples of the window and the others are as np.empty left them; an
\* iteration advances ci by one; the call returns after the last sample.
C21_BuilderOncePerSample ==
    /\ [](\A w \in DOMAIN workers :
            LET me == workers[w]
                n  == Len(GenWtSeq)
                C  == channel_count(self.co_table)
            IN  me.pc \in {"loop", "returned"} =>
                  /\ me.features_to_encode = WorkerWindow(w).features
                  /\ me.corresponding_labels = WorkerWindow(w).labels
                  /\ Len(me.batch_features) = Len(me.features_to_encode)
                  /\ Len(me.batch_labels) = Len(me.features_to_encode)
                  /\ \A k \in 1..Len(me.batch_features) :
                        IF k <= me.ci
                        THEN /\ me.batch_features[k].variant = me.features_to_encode[k]
                             /\ me.batch_features[k].shape = <<n, n, C>>
                             /\ me.batch_labels[k] = me.corresponding_labels[k]
                        ELSE /\ me.batch_features[k] = Uninitialised
                             /\ me.batch_labels[k] = UninitialisedLabel
                  /\ me.pc = "returned" =>
                        /\ me.ci = Len(me.features_to_encode)
                        /\ me.value[1] = me.batch_features
                        /\ self.train => me.value[2] = me.batch_labels)
    /\ [][\A w \in DOMAIN workers :
             (workers[w].pc = "loop" /\ workers'[w] # workers[w]) =>
                 /\ workers'[w].pc = "loop" => workers'[w].ci = workers[w].ci + 1
                 /\ workers'[w].pc # "loop" => workers'[w].ci = workers[w].ci
         ]_vars

\* C21 (witness): a training call has returned a batch of two samples or
\* more, with their labels
C21_Witness ==
    \E w \in DOMAIN workers :
        /\ workers[w].pc = "returned" /\ self.train
        /\ Len(workers[w].value[1]) >= 2
        /\ Len(workers[w].value[2]) = Len(workers[w].value[1])

\* C13: with train, self[idx] returns the pair of the tensor and the labels,
\* one slot and one label for every sample of the window, the k-th label
\* that of the k-th sample of the window; without train it returns the
\* tensor alone, with one slot for every sample, and no labels.
C13_TrainPairElseTensor ==
    BatchReturned =>
        LET lo == ret.idx * self.batch_size
            n  == Cardinality(WindowPlaces(ret.idx))
        IN  /\ Len(ret.value[1]) = n
            /\ BatchVariants(ret.value) = [k \in 1..n |-> self.features[lo + k]]
            /\ self.train =>
                  /\ Len(ret.value) = 2
                  /\ ret.value[2] = [k \in 1..n |-> self.labels[lo + k]]
            /\ ~self.train => Len(ret.value) = 1

\* a generator with train off has returned the tensor of a window of two
\* samples or more
C13_Witness ==
    /\ BatchReturned /\ ~self.train
    /\ Len(ret.value) = 1
    /\ Len(ret.value[1]) >= 2

-----------------------------------------------------------------------------
(* CustomPrint *)

\* no callback
CbNone == cb = <<>>

\* np.Inf: above every loss
np_Inf == MaxLoss + 1

\* __init__, lines 523-538, with what the callback has done so far: the
\* epochs at which it called self.model.save(self.model_d), whether
\* on_train_end saved, the number of its latest epoch (-1 before the first)
\* and the validation losses of the epochs before
CustomPrint_init(model_save_interval, save) ==
    [ best_loss |-> np_Inf, bl_epoch |-> 0,
      best_val_loss |-> np_Inf, bvl_epoch |-> 0,
      latest_loss |-> 0, latest_val_loss |-> 0,
      epoch_since_model_save |-> 0,
      model_save_interval |-> model_save_interval, save |-> save,
      saved |-> <<>>, end_saved |-> FALSE,
      epoch |-> -1, val_losses |-> <<>>, pc |-> "training" ]

\* (mutant) the model saved at every improvement, whatever the interval
CustomPrint_on_epoch_end_every(slf, epoch, logs) ==
    LET improved == logs.val_loss < slf.best_val_loss
        saves == improved /\ slf.save
    IN  [slf EXCEPT
            !.latest_loss = logs.loss, !.latest_val_loss = logs.val_loss,
            !.best_val_loss = IF improved THEN logs.val_loss ELSE @,
            !.bvl_epoch = IF improved THEN epoch ELSE @,
            !.saved = IF saves THEN Append(@, epoch) ELSE @,
            !.epoch_since_model_save = IF saves THEN epoch ELSE @,
            !.epoch = epoch, !.val_losses = Append(@, logs.val_loss)]

\* on_epoch_end(epoch, logs), lines 539-552 (the prints of lines 544-551
\* and 553-571 change nothing)
CustomPrint_on_epoch_end(slf, epoch, logs) ==
    LET cur_loss == logs.loss
        cur_val_loss == logs.val_loss
        better == cur_loss < slf.best_loss
        improved == cur_val_loss < slf.best_val_loss
        saves == /\ improved
                 /\ slf.save
                 /\ epoch - slf.epoch_since_model_save >= slf.model_save_interval
    IN  [slf EXCEPT
            !.latest_loss = cur_loss, !.latest_val_loss = cur_val_loss,
            !.best_loss = IF better THEN cur_loss ELSE @,
            !.bl_epoch = IF better THEN epoch ELSE @,
            !.best_val_loss = IF improved THEN cur_val_loss ELSE @,
            !.bvl_epoch = IF improved THEN epoch ELSE @,
            !.saved = IF saves THEN Append(@, epoch) ELSE @,
            !.epoch_since_model_save = IF saves THEN epoch ELSE @,
            !.epoch = epoch, !.val_losses = Append(@, cur_val_loss)]

\* on_train_end, lines 573-576: the model is saved once more, under
\* model_d + "_end", if save is on
CustomPrint_on_train_end(slf) ==
    [slf EXCEPT !.end_saved = slf.save, !.pc = "ended"]

\* the logs of an epoch
EpochLogs == { [loss |-> l, val_loss |-> v] : l \in {0, MaxLoss}, v \in 0..MaxLoss }

\* the callback as model.fit is about to use it
CallbackNew ==
    cb \in { CustomPrint_init(msi, sv) : msi \in 1..MaxInterval, sv \in BOOLEAN }

\* keras calls on_epoch_end with the next epoch number, or with a later one
CbEpochEnd ==
    /\ cb # <<>> /\ cb.pc = "training"
    /\ \E epoch \in (cb.epoch + 1)..(cb.epoch + 2), logs \in EpochLogs :
          /\ epoch <= MaxEpoch
          /\ cb' = CustomPrint_on_epoch_end(cb, epoch, logs)
    /\ UNCHANGED <<aug_vars, enc_vars, gen_vars, wrk_vars, run_vars>>

\* the training is over
CbTrainEnd ==
    /\ cb # <<>> /\ cb.pc = "training"
    /\ cb' = CustomPrint_on_train_end(cb)
    /\ UNCHANGED <<aug_vars, enc_vars, gen_vars, wrk_vars, run_vars>>

\* the epoch of the save before the k-th one, 0 before the first
PreviousSave(saved, k) == IF k = 1 THEN 0 ELSE saved[k - 1]

\* C25: over any sequence of on_epoch_end calls with increasing epoch
\* numbers, the model is saved at epoch e only if save is on, the validation
\* loss of e is lower than that of every epoch before, and e less the epoch
\* of the save before (0 before any save) is at least model_save_interval;
\* so two saves are never fewer than model_save_interval epochs apart, and
\* nothing is saved when save is off.
C25_SaveOnlyOnImprovement ==
    /\ [][(cb # <<>> /\ cb'.saved # cb.saved) =>
             /\ cb.save
             /\ cb'.saved = Append(cb.saved, cb'.epoch)
             /\ cb'.epoch > cb.epoch
             /\ \A k \in 1..Len(cb.val_losses) :
                   cb'.latest_val_loss < cb.val_losses[k]
             /\ cb'.epoch - PreviousSave(cb'.saved, Len(cb'.saved))
                   >= cb.model_save_interval
         ]_vars
    /\ [](cb # <<>> =>
            /\ ~cb.save => (cb.saved = <<>> /\ ~cb.end_saved)
            /\ \A k \in 1..Len(cb.saved) :
                  cb.saved[k] - PreviousSave(cb.saved, k) >= cb.model_save_interval)

\* C25 (witness): with an interval of two epochs, called for the epochs 0
\* to 4, the callback has saved the model twice, at the epochs 2 and 4; the
\* improvement of epoch 0 was not saved
C25_Witness ==
    /\ cb # <<>> /\ cb.save /\ cb.model_save_interval = 2
    /\ cb.epoch = 4 /\ Len(cb.val_losses) = 5
    /\ cb.saved = <<2, 4>>
    /\ cb.val_losses[1] < np_Inf

-----------------------------------------------------------------------------
(* run_all: from the split of the data to the training *)

\* no call of run_all
RunNone == run = <<>>

\* max_train_mutations=None, written as a number that is no number of
\* mutations
NoLimit == -1

\* model_save_interval of CustomPrint when the caller gives none, line 492
model_save_interval_default == 5

\* the constants of the augmentation block
cap == 20000
daug_rounds == 3
daug_runs == 4

\* Scores are kept in units of 1/25 in run_all, so that the products with
\* 1 - i * decay, decay = 0.2, stay whole: the factor of round i is
\* (5 - i) / 5.  Rounding of the floats is not modelled.
score_unit == 25

\* a[mask] for a boolean mask: the entries of a where keep holds
RECURSIVE np_mask(_, _, _)
np_mask(a, keep, k) ==
    IF k > Len(a) THEN <<>>
    ELSE (IF keep[k] THEN <<a[k]>> ELSE <<>>) \o np_mask(a, keep, k + 1)

\* lines 896-901: the training data restricted to the variants of at most
\* max_train_mutations mutations
mtm_filter(t, max_train_mutations) ==
    IF max_train_mutations # NoLimit
    THEN LET mtm_bool == [k \in 1..Len(t.mutations) |->
                             t.mutations[k] <= max_train_mutations]
         IN  [data |-> np_mask(t.data, mtm_bool, 1),
              labels |-> np_mask(t.labels, mtm_bool, 1),
              mutations |-> np_mask(t.mutations, mtm_bool, 1)]
    ELSE t

\* line 84-104, one iteration of the loop of augment when np.random.shuffle
\* has left the arrangement p in pos_inds: the rows the iteration adds to
\* nd, nl and nm
augment_run(dat, lab, mut, p) ==
    LET del == to_del_of(dat, mut, p)
    IN  [nd |-> np_delete(new_data(dat, p), del),
         nl |-> np_delete(new_labels(lab, p), del),
         nm |-> np_delete(new_mutations(mut, p), del)]

\* the elements of a set of numbers in rising order
RECURSIVE SortedSeq(_)
SortedSeq(S) ==
    IF S = {} THEN <<>>
    ELSE LET x == CHOOSE x \in S : \A y \in S : x <= y
         IN  <<x>> \o SortedSeq(S \ {x})

\* the (0-based) rows that are not rejected with every row as their partner.
\* The check of lines 97-98 reads the two rows of a pairing only, and gives
\* the same for (j, k) and (k, j): a row that is not here is rejected as the
\* first and as the second row of any pairing.
ActiveRows(dat, mut) ==
    LET n == Len(dat)
    IN  { cj \in 0..(n - 1) :
            \E k \in 0..(n - 1) : ~rejected(dat, mut, [x \in 1..n |-> k], cj) }

\* The arrangement of 0..n-1 that pairs the active rows as g says: g[cj] is
\* the active row that row cj is paired with, or -1 for "some row that is
\* not active".  Such active rows take the first rows that are not active,
\* and the rows that are not active take the rows that are left, in order.
arrangement_of(n, act, g) ==
    LET inert   == (0..(n - 1)) \ act
        to_act  == { cj \in act : g[cj] # -1 }
        free_act == act \ { g[cj] : cj \in to_act }
        places  == SortedSeq(act \ to_act) \o SortedSeq(inert)
        values  == SortedSeq(inert) \o SortedSeq(free_act)
        at(cj)  == CHOOSE x \in 1..Len(places) : places[x] = cj
    IN  [x \in 1..n |-> IF (x - 1) \in to_act THEN g[x - 1] ELSE values[at(x - 1)]]

\* np.random.shuffle(pos_inds), line 83, can leave any arrangement of
\* 0..n-1 (Shuffles(n)).  What an iteration adds depends on the partners of
\* the active rows only, and on those only as far as they are active rows
\* themselves; this is one arrangement for each way of pairing the active
\* rows, and every arrangement adds what one of these adds.
ShuffleClasses(dat, mut) ==
    LET n   == Len(dat)
        act == ActiveRows(dat, mut)
    IN  { arrangement_of(n, act, g) :
            g \in { h \in [act -> act \cup {-1}] :
                      /\ \A a, b \in act : (a # b /\ h[a] # -1) => h[a] # h[b]
                      /\ Cardinality({ a \in act : h[a] = -1 }) <= n - Cardinality(act) } }

\* what one iteration of augment's loop can add, for all the arrangements
\* the shuffle can leave
augment_run_returns(dat, lab, mut) ==
    { augment_run(dat, lab, mut, p) : p \in ShuffleClasses(dat, mut) }

\* nd, nl, nm after r more iterations, each adding one of outs
RECURSIVE augment_loop_returns(_, _, _)
augment_loop_returns(acc, outs, r) ==
    IF r = 0 THEN acc
    ELSE augment_loop_returns(
             { [nd |-> a.nd \o o.nd, nl |-> a.nl \o o.nl, nm |-> a.nm \o o.nm] :
                 a \in acc, o \in outs },
             outs, r - 1)

\* what augment(dat, lab, mut, runs=r) can return with un off, lines 75-116
augment_returns(dat, lab, mut, r) ==
    augment_loop_returns({ [nd |-> <<>>, nl |-> <<>>, nm |-> <<>>] },
                         augment_run_returns(dat, lab, mut), r)

\* lines 917-922: the concatenations of round i, aug being what augment
\* returned
daug_round(t, rnd, aug) ==
    [data |-> t.data \o aug.nd,
     \* aug_labels * (1 - i * decay)
     labels |-> t.labels \o [k \in 1..Len(aug.nl) |-> (aug.nl[k] * (5 - rnd)) \div 5],
     mutations |-> t.mutations \o aug.nm]

\* lines 913-923: the training data as the rounds rnd .. daug_rounds - 1 can
\* leave them
RECURSIVE daug_loop_returns(_, _)
daug_loop_returns(t, rnd) ==
    IF rnd = daug_rounds THEN {t}
    ELSE UNION { daug_loop_returns(daug_round(t, rnd, aug), rnd + 1) :
                   aug \in augment_returns(t.data, t.labels, t.mutations, daug_runs) }

\* The classes leave nothing out: whatever arrangement the shuffle leaves,
\* the iteration adds what it adds for one of ShuffleClasses; and what a
\* call of augment without un has returned is among augment_returns.
ShuffleClassesComplete ==
    /\ \A p \in Shuffles(Len(data)) :
          augment_run(data, labels, mutations, p)
              \in augment_run_returns(data, labels, mutations)
    /\ ShuffleClasses(data, mutations) \subseteq Shuffles(Len(data))
    /\ (aug_pc = "done" /\ ~un) =>
          [nd |-> nd, nl |-> nl, nm |-> nm]
              \in augment_returns(data, labels, mutations, runs)

\* (mutant) the cap not applied: all of the augmented set and the original
daug_cap_all(t, ot, cap_) ==
    [data |-> t.data \o ot.data, labels |-> t.labels \o ot.labels,
     mutations |-> t.mutations \o ot.mutations]

\* lines 924-957: the augmented set t joined with the original data ot, cut
\* to the cap (s_inds is np.arange: the shuffle of line 928 is commented out)
daug_cap(t, ot, cap_) ==
    LET nt_len == Len(t.labels)
        ot_len == Len(ot.labels)
        need0  == cap_ - ot_len
        need   == IF need0 < 0 THEN 0 ELSE need0
        join(x) == [data |-> x.data \o ot.data,
                    labels |-> x.labels \o ot.labels,
                    mutations |-> x.mutations \o ot.mutations]
    IN  IF nt_len + ot_len > cap_
        THEN IF need > 0
             THEN join([data |-> py_slice(t.data, 0, need),
                        labels |-> py_slice(t.labels, 0, need),
                        mutations |-> py_slice(t.mutations, 0, need)])
             ELSE ot
        ELSE join(t)

\* The cap of a run: 20000 (line 912), and, so that training sets of a few
\* rows take the branches of lines 934-957, the same code with its cap
\* scaled down to 1..MaxCap
Caps == {cap} \cup (1..MaxCap)

\* the statements of run_all that the surroundings can make fail: reading
\* the data (a lookup error), the encoding of the wild type, building the
\* model, and model.fit (a shape error of a batch, a failure of the training)
RunFailures == {"none", "split", "encode", "model", "fit"}

\* the body of run_all is one try block (line 771) with the handler
\* "except Exception" (line 1290): a statement that raises is followed by
\* the handler, any other by the next statement
after_step(raised, nxt) == IF raised # "none" THEN "except" ELSE nxt

\* a step of run r that leads to r_ok if nothing raises
run_step(r, step, r_ok) ==
    LET raised == IF r.fails = step THEN "Exception" ELSE "none"
    IN  IF raised = "none" THEN r_ok
        ELSE [r EXCEPT !.pc = after_step(raised, r_ok.pc), !.raised = raised]

\* the training split that split_inds reads from the tsv file: variants of
\* the wild type "SD", their scores and their numbers of mutations
RunPool ==
    << [d |-> S1A, l |-> 1 * score_unit, m |-> 1],
       [d |-> D2T, l |-> 2 * score_unit, m |-> 1],
       [d |-> S1A \o <<",">> \o D2T, l |-> 4 * score_unit, m |-> 2] >>

RunInputs ==
    { SelectRows(RunPool, S, 1) :
        S \in { T \in SUBSET (1..Len(RunPool)) : Cardinality(T) <= MaxTrain } }

\* d4_interactions.check_structure: it fails when the sequence of the
\* structure file is not the wild-type sequence
check_structure(matches) == IF matches THEN "none" ELSE "ValidationError"

\* (mutant) the error of the check is passed over and the run goes on
after_check_structure_ignored(raised) == "model"

\* where run_all goes on after line 1026: an exception leaves the try block
\* of line 771 for the handler of line 1290
after_check_structure(raised) == IF raised # "none" THEN "except" ELSE "model"

\* (mutant) seven channels whatever the alignment
channel_num_seven(algn_path) == 7

\* lines 1029-1031
channel_num(algn_path) == IF algn_path = None THEN 6 ELSE 7

\* lines 1125-1175: params with (shuffle, train) = (TRUE, TRUE) and
\* test_params with (FALSE, FALSE)
run_params(r, sh, tr) ==
    [ interaction_matrix |-> [shape |-> <<Len(GenWtSeq), Len(GenWtSeq)>>],
      dim |-> <<Len(GenWtSeq), Len(GenWtSeq)>>,
      n_channels |-> r.channel_num,
      batch_size |-> 64, first_ind |-> 1,
      factor |-> <<"factor">>, dist_mat |-> <<"dist_mat">>,
      dist_th |-> <<"dist_th">>,
      shuffle |-> sh, train |-> tr ] @@ r.ctx

\* run_all(...) is called: its arguments, what the files hold, and its
\* locals before the first statement
run_all_called(rows, mtm, dg, ap, st, ok, fl, cp, pd, sv) ==
    [ pc |-> "setup",
      fails |-> fl, cap |-> cp,
      \* whether p_dir is a directory in which result_files can be made
      p_dir_ok |-> pd,
      max_train_mutations |-> mtm, daug |-> dg, algn_path |-> ap,
      settings_test |-> st, save_model |-> sv,
      structure_matches |-> ok,
      data_dict |-> [data |-> [k \in 1..Len(rows) |-> rows[k].d],
                     labels |-> [k \in 1..Len(rows) |-> rows[k].l],
                     mutations |-> [k \in 1..Len(rows) |-> rows[k].m]],
      train |-> [data |-> <<>>, labels |-> <<>>, mutations |-> <<>>],
      ot_len |-> 0, nt_len |-> 0,
      ctx |-> <<>>, channel_num |-> 0, model |-> "none",
      params |-> <<>>, test_params |-> <<>>, training_generator |-> <<>>,
      fit_called |-> FALSE, evaluated |-> FALSE, results_rows |-> 0,
      raised |-> "none", error_log |-> FALSE ]

RunAllCalled ==
    run \in { run_all_called(rows, mtm, dg, ap, st, ok, fl, cp, pd, sv) :
                rows \in RunInputs, mtm \in {NoLimit, 1}, dg \in BOOLEAN,
                ap \in AlignmentPaths, st \in BOOLEAN, ok \in BOOLEAN,
                fl \in RunFailures, cp \in Caps, pd \in BOOLEAN,
                sv \in BOOLEAN }

\* os.mkdir(result_dir), lines 801-802 and 1293-1294: it raises when the
\* directory p_dir that result_files is to be made in does not exist
os_mkdir_result_dir(p_dir_ok) == IF p_dir_ok THEN "none" ELSE "FileNotFoundError"

\* lines 773-808: the names and the directories of the run
RunSetup ==
    /\ run # <<>> /\ run.pc = "setup"
    /\ LET raised == os_mkdir_result_dir(run.p_dir_ok)
       IN  run' = [run EXCEPT !.pc = after_step(raised, "split"), !.raised = raised]
    /\ UNCHANGED <<aug_vars, enc_vars, gen_vars, wrk_vars, cb_vars>>

\* lines 873-901: the split is read, the training data restricted
RunSplit ==
    /\ run # <<>> /\ run.pc = "split"
    /\ run' = run_step(run, "split",
                  [run EXCEPT !.pc = "daug",
                              !.train = mtm_filter(run.data_dict, run.max_train_mutations)])
    /\ UNCHANGED <<aug_vars, enc_vars, gen_vars, wrk_vars, cb_vars>>

\* lines 903-959: the augmentation, if asked for
RunAugmentData ==
    /\ run # <<>> /\ run.pc = "daug"
    /\ \E t \in (IF run.daug THEN daug_loop_returns(run.train, 0) ELSE {run.train}) :
          run' = [run EXCEPT
              !.pc = "encode",
              \* lines 908 and 923, the two lengths the cap is decided on
              !.ot_len = IF run.daug THEN Len(run.data_dict.labels) ELSE @,
              !.nt_len = IF run.daug THEN Len(t.labels) ELSE @,
              !.train = IF run.daug THEN daug_cap(t, run.data_dict, run.cap) ELSE t]
    /\ UNCHANGED <<aug_vars, enc_vars, gen_vars, wrk_vars, cb_vars>>

\* lines 1004-1018: the wild type is encoded
RunEncode ==
    /\ run # <<>> /\ run.pc = "encode"
    /\ run' = run_step(run, "encode",
                  [run EXCEPT !.pc = "check",
                              !.ctx = data_generator_vals(GenWtSeq, run.algn_path)])
    /\ UNCHANGED <<aug_vars, enc_vars, gen_vars, wrk_vars, cb_vars>>

\* lines 1020-1026: the structure is read and checked against the sequence
RunCheckStructure ==
    /\ run # <<>> /\ run.pc = "check"
    /\ LET raised == check_structure(run.structure_matches)
       IN  run' = [run EXCEPT !.pc = after_check_structure(raised),
                              !.raised = raised]
    /\ UNCHANGED <<aug_vars, enc_vars, gen_vars, wrk_vars, cb_vars>>

\* lines 1028-1083: the model is built for channel_num channels and compiled
RunBuildModel ==
    /\ run # <<>> /\ run.pc = "model"
    /\ LET r == [run EXCEPT !.channel_num = channel_num(run.algn_path)]
       IN  run' = run_step(r, "model",
                      [r EXCEPT !.pc = "generators", !.model = "compiled"])
    /\ UNCHANGED <<aug_vars, enc_vars, gen_vars, wrk_vars, cb_vars>>

\* lines 1125-1180: the generators are made
RunGenerators ==
    /\ run # <<>> /\ run.pc = "generators"
    /\ run' = [run EXCEPT
          !.pc = "fit",
          !.params = run_params(run, TRUE, TRUE),
          !.test_params = run_params(run, FALSE, FALSE),
          !.training_generator =
              DataGenerator_init(run.train.data, run.train.labels,
                                 run_params(run, TRUE, TRUE))]
    /\ UNCHANGED <<aug_vars, enc_vars, gen_vars, wrk_vars, cb_vars>>

\* lines 1182-1193: with settings_test nothing more is done; else model.fit
\* is entered with the training generator, the callbacks and its workers.
\* From here to the end of model.fit the steps of the generator (self[idx],
\* on_epoch_end), of the workers and of the callback are steps of the run.
RunFit ==
    /\ run # <<>> /\ run.pc = "fit"
    /\ IF run.settings_test
       THEN /\ run' = [run EXCEPT !.pc = "done"]
            /\ UNCHANGED <<gen_vars, wrk_vars, cb_vars>>
       ELSE /\ run' = [run EXCEPT !.pc = "training", !.fit_called = TRUE]
            /\ self' = run.training_generator
            /\ ret' = [op |-> "init", idx |-> 0, raised |-> "none", value |-> <<>>]
            /\ served' = <<>>
            /\ gen_pc' = "ready"
            /\ workers' = [w \in 1..MaxWorkers |-> WorkerIdle]
            \* the CustomPrint of lines 1115-1121
            /\ cb' = CustomPrint_init(model_save_interval_default, run.save_model)
    /\ UNCHANGED <<aug_vars, enc_vars>>

\* the exception model.fit ends with, if any: a failure of the training, or
\* the error of a self[idx] of the training generator
fit_raised ==
    IF run.fails = "fit" THEN "Exception"
    ELSE IF ret.op = "getitem" /\ ret.raised # "none" THEN ret.raised
    ELSE IF \E w \in DOMAIN workers : workers[w].pc = "raised"
    THEN workers[CHOOSE w \in DOMAIN workers : workers[w].pc = "raised"].raised
    ELSE "none"

\* lines 1184-1288: model.fit ends, after on_train_end of the callbacks or
\* with an exception; the model is evaluated and the row of results written.
\* The generators and the callbacks are locals of run_all.
RunFitEnd ==
    /\ run # <<>> /\ run.pc = "training"
    /\ fit_raised # "none" \/ cb.pc = "ended"
    /\ run' = IF fit_raised # "none"
              THEN [run EXCEPT !.pc = after_step(fit_raised, "done"),
                               !.raised = fit_raised]
              ELSE [run EXCEPT !.pc = "done", !.evaluated = TRUE, !.results_rows = 1]
    /\ self' = <<>> /\ ret' = <<>> /\ served' = <<>> /\ gen_pc' = "idle"
    /\ workers' = <<>>
    /\ cb' = <<>>
    /\ UNCHANGED <<aug_vars, enc_vars>>

\* lines 1290-1304: the handler makes result_files if it is not there and
\* writes the exception to error.log, and run_all returns; an exception of
\* the handler's own os.mkdir leaves run_all
RunExcept ==
    /\ run # <<>> /\ run.pc = "except"
    /\ LET raised == os_mkdir_result_dir(run.p_dir_ok)
       IN  run' = IF raised = "none"
                  THEN [run EXCEPT !.pc = "done", !.error_log = TRUE]
                  ELSE [run EXCEPT !.pc = "propagated", !.raised = raised]
    /\ UNCHANGED <<aug_vars, enc_vars, gen_vars, wrk_vars, cb_vars>>

\* x is None (a value of the encoder is a sequence of length Len(wt_seq))
IsNull(x) == Len(x) = Len(None) /\ x = None

\* the three conservation values of a record are all None / all not None
ConservationNull(c) ==
    IsNull(c.co_converted) /\ IsNull(c.co_table) /\ IsNull(c.co_rows)
ConservationGiven(c) ==
    ~IsNull(c.co_converted) /\ ~IsNull(c.co_table) /\ ~IsNull(c.co_rows)

\* the wild type has been encoded / the generators have been made
RunEncoded == run # <<>> /\ run.ctx # <<>>
\* (line 1178 has assigned training_generator; the handler of an exception
\* raised after that finds it, params and the compiled model in the frame)
RunConfigured ==
    run # <<>> /\ run.model = "compiled" /\ run.training_generator # <<>>

\* C15: the conservation outputs and the channel count agree.  Without an
\* alignment data_generator_vals returns co_converted, co_table and co_rows
\* all None and both generators are configured with 6 channels; with an
\* alignment the three are not None and the generators get 7 channels; no
\* run mixes None conservation data with 7 channels or data with 6.
C15_ConservationMatchesChannels ==
    /\ RunEncoded =>
          IF run.algn_path = None THEN ConservationNull(run.ctx)
                                  ELSE ConservationGiven(run.ctx)
    /\ RunConfigured =>
          /\ run.params.n_channels = run.test_params.n_channels
          /\ run.training_generator.n_channels = run.params.n_channels
          /\ IF run.algn_path = None
             THEN /\ ConservationNull(run.params)
                  /\ ConservationNull(run.test_params)
                  /\ ConservationNull(run.training_generator)
                  /\ run.params.n_channels = 6
             ELSE /\ ConservationGiven(run.params)
                  /\ ConservationGiven(run.test_params)
                  /\ ConservationGiven(run.training_generator)
                  /\ run.params.n_channels = 7

\* C15 (witness): a run with an alignment has made its generators, with
\* conservation data and seven channels
C15_Witness ==
    /\ RunConfigured /\ run.algn_path # None
    /\ ConservationGiven(run.training_generator)
    /\ run.training_generator.n_channels = 7

\* nothing of the training has happened in this run
NothingTrained ==
    /\ run.model = "none"
    /\ ~run.fit_called /\ ~run.evaluated
    /\ run.results_rows = 0
    /\ run.pc \notin {"model", "generators", "fit", "training"}

\* C19: if check_structure fails, the failure is fatal before any training:
\* in that run model.fit is never invoked, no model is built or compiled,
\* and no evaluation or results row is produced.  A run whose structure does
\* not match the wild type is in no state, before or after the check, in
\* which any of these has happened, and once the check has raised the run
\* only goes to the handler and ends.
C19_StructureFailureFatal ==
    /\ [](run # <<>> /\ (~run.structure_matches \/ run.raised = "ValidationError")
             => NothingTrained)
    /\ [][run # <<>> /\ run.raised = "ValidationError"
             => /\ run'.raised = run.raised
                /\ run'.pc = "done" /\ run'.error_log]_vars

\* C19 (witness): a run has ended after check_structure raised
C19_Witness ==
    /\ run # <<>> /\ run.pc = "done"
    /\ ~run.structure_matches /\ run.raised = "ValidationError"
    /\ run.error_log

\* the number of mutations of a variant: its comma-separated tokens
mutation_count(variant) == Len(str_split(variant))

\* C20: when max_train_mutations is an integer m, every variant in the
\* training set handed to the training DataGenerator has at most m
\* mutations, whatever the other options are (daug on as well as off).
C20_TrainMutationsBounded ==
    (RunConfigured /\ run.max_train_mutations # NoLimit) =>
        \A k \in 1..Len(run.training_generator.features) :
            mutation_count(run.training_generator.features[k])
                <= run.max_train_mutations

\* the same, for the runs without augmentation
C20_BoundedWithoutDaug ==
    (RunConfigured /\ run.max_train_mutations # NoLimit /\ ~run.daug) =>
        \A k \in 1..Len(run.training_generator.features) :
            mutation_count(run.training_generator.features[k])
                <= run.max_train_mutations

\* the augmentation block of a run with daug is over
RunAugmented ==
    /\ run # <<>> /\ run.daug
    /\ run.pc \notin {"setup", "split", "daug"}
    /\ run.p_dir_ok /\ run.fails # "split"

\* C23: with daug on, the final training set has nt_len + ot_len entries
\* when nt_len + ot_len <= cap, exactly cap when nt_len + ot_len > cap and
\* ot_len < cap, and exactly ot_len when ot_len >= cap; once the cap branch
\* is taken it has no more than max(cap, ot_len).  nt_len is the size of the
\* set accumulated in the three rounds, ot_len that of the original data.
C23_CapSizes ==
    RunAugmented =>
        LET size == Len(run.train.data)
            larger == IF run.cap > run.ot_len THEN run.cap ELSE run.ot_len
        IN  /\ Len(run.train.labels) = size /\ Len(run.train.mutations) = size
            /\ run.ot_len = Len(run.data_dict.data)
            /\ run.nt_len + run.ot_len <= run.cap => size = run.nt_len + run.ot_len
            /\ (run.nt_len + run.ot_len > run.cap /\ run.ot_len < run.cap)
                  => size = run.cap
            /\ run.ot_len >= run.cap => size = run.ot_len
            /\ run.nt_len + run.ot_len > run.cap => size <= larger

\* C23 (witness): eighteen accumulated entries and two original ones under
\* a cap of three: the training set has three entries
C23_Witness ==
    /\ RunAugmented /\ run.cap = 3
    /\ run.nt_len = 18 /\ run.ot_len = 2
    /\ Len(run.train.data) = 3

\* how often the original training sample r is in the training set
Occurrences(r) ==
    Cardinality({ k \in 1..Len(run.train.data) :
                    /\ run.train.data[k] = run.data_dict.data[r]
                    /\ run.train.labels[k] = run.data_dict.labels[r]
                    /\ run.train.mutations[k] = run.data_dict.mutations[r] })

\* entry k of the training set is an original training sample
IsOriginal(k) ==
    \E r \in 1..Len(run.data_dict.data) :
        /\ run.train.data[k] = run.data_dict.data[r]
        /\ run.train.labels[k] = run.data_dict.labels[r]

\* C24: with daug on, the final training set is the original training
\* samples and augmented samples: every original sample is in it exactly
\* once, and when the cap is applied the entries in front of the original
\* data, taken to fill up to the cap, are augmented ones.
C24_OriginalsOnce ==
    RunAugmented =>
        /\ \A r \in 1..Len(run.data_dict.data) : Occurrences(r) = 1
        /\ (run.nt_len + run.ot_len > run.cap) =>
              \A k \in 1..(Len(run.train.data) - run.ot_len) : ~IsOriginal(k)

\* the part of it that holds: the original samples are all in the set, at
\* its end, in their order
C24_OriginalsLast ==
    RunAugmented =>
        LET size == Len(run.train.data)
        IN  /\ size >= run.ot_len
            /\ SubSeq(run.train.data, size - run.ot_len + 1, size) = run.data_dict.data
            /\ SubSeq(run.train.labels, size - run.ot_len + 1, size) = run.data_dict.labels

\* C29: run_all never hands an exception to its caller: a failure raised
\* inside it (making the directories, reading the data, the encoding, the
\* check of the structure, building the model, the training) is caught and
\* written to error.log and run_all returns; no step after the failing one
\* is executed: from a state in which a statement has raised, the only step
\* is that of the handler, which changes nothing but error.log.
C29_NoExceptionEscapes ==
    /\ [](run # <<>> =>
            /\ run.pc # "propagated"
            /\ run.raised # "none" => run.pc \in {"except", "done"}
            /\ (run.raised # "none" /\ run.pc = "done") => run.error_log
            /\ run.error_log => run.raised # "none")
    /\ [][(run # <<>> /\ run.raised # "none") =>
             run' = [run EXCEPT !.pc = "done", !.error_log = TRUE]]_vars

\* the same for the runs whose p_dir exists, so that the handler can make
\* result_files and write error.log
C29_CaughtWhenLogWritable ==
    /\ [](run # <<>> /\ run.p_dir_ok =>
            /\ run.pc # "propagated"
            /\ run.raised # "none" => run.pc \in {"except", "done"}
            /\ (run.raised # "none" /\ run.pc = "done") => run.error_log
            /\ run.error_log => run.raised # "none")
    /\ [][(run # <<>> /\ run.p_dir_ok /\ run.raised # "none") =>
             run' = [run EXCEPT !.pc = "done", !.error_log = TRUE]]_vars

-----------------------------------------------------------------------------
(* Specifications *)

InitAugment == AugmentCalled /\ EncIdle /\ GenIdle /\ WorkersNone /\ RunNone /\ CbNone

NextAugment == AugmentRun \/ AugmentReturn

\* augment alone
SpecAugment == InitAugment /\ [][NextAugment]_vars

\* what every step of a call does to its position: an iteration of
\* "for i in range(runs)" counts i up, and the return follows the last one
AugmentProceeds ==
    /\ aug_pc = "loop"
    /\ \/ i < runs /\ i' = i + 1 /\ aug_pc' = "loop"
       \/ i = runs /\ i' = i /\ aug_pc' = "done"

\* augment runs on: the interpreter takes the next step of a call that has
\* one.  The steps of NextAugment are those that change the position as
\* AugmentProceeds says, and they are possible in the same states.
SpecAugmentFair == SpecAugment /\ WF_<<i, aug_pc>>(AugmentProceeds)

InitEncoder == EncoderCalled /\ AugIdle /\ GenIdle /\ WorkersNone /\ RunNone /\ CbNone

NextEncoder == DataGeneratorVals

\* data_generator_vals alone
SpecEncoder == InitEncoder /\ [][NextEncoder]_vars

InitGenerator == GeneratorNew /\ AugIdle /\ EncIdle /\ WorkersNone /\ RunNone /\ CbNone

NextGenerator == Construct \/ GetItem \/ OnEpochEnd

\* a DataGenerator alone
SpecGenerator == InitGenerator /\ [][NextGenerator]_vars

InitWorkers == WorkersReady /\ AugIdle /\ EncIdle /\ RunNone /\ CbNone

NextWorkers == WorkerCall \/ WorkerStep \/ WorkerReturn

\* the calls of self[idx] that the workers of model.fit make in one epoch
SpecWorkers == InitWorkers /\ [][NextWorkers]_vars

InitRunAll == RunAllCalled /\ AugIdle /\ EncIdle /\ GenIdle /\ WorkersNone /\ CbNone

NextRunAll ==
    \/ RunSetup \/ RunSplit \/ RunAugmentData \/ RunEncode \/ RunCheckStructure
    \/ RunBuildModel \/ RunGenerators \/ RunFit \/ RunFitEnd \/ RunExcept
    \/ CbTrainEnd

\* a call of run_all.  Of the training it has the steps of run_all itself:
\* model.fit is entered, on_train_end is called, model.fit ends or raises;
\* the batches and the epochs in between are steps of Spec
SpecRunAll == InitRunAll /\ [][NextRunAll]_vars

InitCallback == CallbackNew /\ AugIdle /\ EncIdle /\ GenIdle /\ WorkersNone /\ RunNone

NextCallback == CbEpochEnd \/ CbTrainEnd

\* the calls keras makes on the callback during a training
SpecCallback == InitCallback /\ [][NextCallback]_vars

\* any one of them; in a call of run_all the generator, the workers and the
\* callback come to life when model.fit is entered (RunFit), and their steps
\* go on until it ends (RunFitEnd)
Init == InitAugment \/ InitEncoder \/ InitGenerator \/ InitWorkers \/ InitRunAll \/ InitCallback

Next ==
    \/ AugmentRun \/ AugmentReturn
    \/ DataGeneratorVals
    \/ Construct \/ GetItem \/ OnEpochEnd
    \/ WorkerCall \/ WorkerStep \/ WorkerReturn
    \/ RunSetup \/ RunSplit \/ RunAugmentData \/ RunEncode \/ RunCheckStructure
    \/ RunBuildModel \/ RunGenerators \/ RunFit \/ RunFitEnd \/ RunExcept
    \/ CbEpochEnd \/ CbTrainEnd

Spec == Init /\ [][Next]_vars

====
